---- MODULE Spec2Model ----
(***************************************************************************)
(* A model of the workload-variant-autoscaler: the adapter layer of        *)
(* internal/utils (system data builder, optimized allocation adapter),     *)
(* the optimizer engine (VariantAutoscalingsEngine.Optimize), the metrics  *)
(* collector (AddMetricsToOptStatus) and the Metrics Cache.                *)
(*                                                                         *)
(* Numbers: a float is a record, Num(h) for the finite value h/100 (the    *)
(* model's resolution is one hundredth), NaN, PosInf or NegInf.  Strings   *)
(* are TLA+ strings; parsing and formatting work on their characters.      *)
(***************************************************************************)
EXTENDS Integers, Sequences, FiniteSets, TLC

(***************************************************************************)
(* Bounds of the model.                                                    *)
(***************************************************************************)
\* Arrival rates of the inputs range over 0 .. MaxRate requests.
MaxRate == 3
\* The solver's bounded search ceiling on the replica count.
MaxReplicas == 2
\* The most variants a cycle lists.
MaxVariants == 2
\* The most cache calls one reconciliation cycle makes.
MaxOps == 2
MaxHundredths == 50
MaxLen == 3
MaxAllocs == 2

(***************************************************************************)
(* Floats.                                                                 *)
(***************************************************************************)
Num(h) == [k |-> "num", v |-> h]
NaN == [k |-> "nan", v |-> 0]
PosInf == [k |-> "inf", v |-> 1]
NegInf == [k |-> "inf", v |-> -1]

IsNaN(x) == x.k = "nan"
IsInf(x) == x.k = "inf"

Abs(n) == IF n < 0 THEN -n ELSE n

\* Go's int(f) of a finite float: truncation toward zero, in whole units.
TruncToInt(x) == IF x.v >= 0 THEN x.v \div 100 ELSE -((-x.v) \div 100)

(***************************************************************************)
(* Characters and decimal strings.                                         *)
(***************************************************************************)
Char(s, i) == SubSeq(s, i, i)

DigitChars == "0123456789"
UpperChars == "ABCDEFGHIJKLMNOPQRSTUVWXYZ"
LowerChars == "abcdefghijklmnopqrstuvwxyz"

\* The value of each digit character, and the lower case of each upper-case letter.
DigitOf == [c \in {Char(DigitChars, i) : i \in 1..10} |->
               (CHOOSE i \in 1..10 : Char(DigitChars, i) = c) - 1]
LowerOf == [c \in {Char(UpperChars, i) : i \in 1..26} |->
               Char(LowerChars, CHOOSE i \in 1..26 : Char(UpperChars, i) = c)]

IsDigit(c) == c \in DOMAIN DigitOf
DigitValue(c) == DigitOf[c]

AllDigits(s) == \A i \in 1..Len(s) : IsDigit(Char(s, i))

RECURSIVE DecValue(_)
DecValue(s) ==
    IF Len(s) = 0 THEN 0
    ELSE DecValue(SubSeq(s, 1, Len(s) - 1)) * 10 + DigitValue(Char(s, Len(s)))

RECURSIVE DecString(_)
DecString(n) ==
    IF n < 10 THEN Char(DigitChars, n + 1)
    ELSE DecString(n \div 10) \o Char(DigitChars, (n % 10) + 1)

LowerChar(c) == IF c \in DOMAIN LowerOf THEN LowerOf[c] ELSE c

RECURSIVE ToLower(_)
ToLower(s) ==
    IF Len(s) = 0 THEN "" ELSE LowerChar(Char(s, 1)) \o ToLower(SubSeq(s, 2, Len(s)))

\* The hundredths read from the digits after the decimal point.
FracHundredths(f) ==
    IF Len(f) = 0 THEN 0
    ELSE IF Len(f) = 1 THEN DigitValue(Char(f, 1)) * 10
    ELSE DigitValue(Char(f, 1)) * 10 + DigitValue(Char(f, 2))

\* An unsigned decimal: digits, optionally a point and digits, one digit at least.
ParseUnsigned(s) ==
    LET dots == {i \in 1..Len(s) : Char(s, i) = "."}
        p == IF dots = {} THEN Len(s) + 1 ELSE CHOOSE i \in dots : \A j \in dots : i <= j
        whole == SubSeq(s, 1, p - 1)
        frac == SubSeq(s, p + 1, Len(s))
    IN  IF AllDigits(whole) /\ AllDigits(frac) /\ Len(whole) + Len(frac) >= 1
        THEN [err |-> FALSE, f |-> Num(DecValue(whole) * 100 + FracHundredths(frac))]
        ELSE [err |-> TRUE, f |-> Num(0)]

\* strconv.ParseFloat(s, 32): a signed decimal, a signed infinity or "nan"
\* (letters in either case); anything else is a syntax error with value 0.
ParseFloat(s) ==
    LET signed == Len(s) > 0 /\ Char(s, 1) \in {"+", "-"}
        neg == Len(s) > 0 /\ Char(s, 1) = "-"
        body == IF signed THEN SubSeq(s, 2, Len(s)) ELSE s
        u == ParseUnsigned(body)
    IN  IF ~u.err THEN [err |-> FALSE, f |-> IF neg THEN Num(-u.f.v) ELSE u.f]
        ELSE IF ToLower(body) \in {"inf", "infinity"}
        THEN [err |-> FALSE, f |-> IF neg THEN NegInf ELSE PosInf]
        ELSE IF ~signed /\ ToLower(body) = "nan" THEN [err |-> FALSE, f |-> NaN]
        ELSE u

TwoDigits(n) == Char(DigitChars, (n \div 10) + 1) \o Char(DigitChars, (n % 10) + 1)

\* strconv.FormatFloat(x, 'f', 2, 32).
FormatFloat(x) ==
    IF IsNaN(x) THEN "NaN"
    ELSE IF IsInf(x) THEN (IF x.v > 0 THEN "+Inf" ELSE "-Inf")
    ELSE (IF x.v < 0 THEN "-" ELSE "") \o DecString(Abs(x.v) \div 100)
         \o "." \o TwoDigits(Abs(x.v) % 100)

(***************************************************************************)
(* Go maps and their iteration order.                                      *)
(***************************************************************************)
\* m[k] of a Go map of strings: the zero value "" for an absent key.
MapGet(m, k) == IF k \in DOMAIN m THEN m[k] ELSE ""

\* The orders in which a range loop may visit the keys S of a Go map.
Orders(S) ==
    {o \in [1..Cardinality(S) -> S] : \A i, j \in 1..Cardinality(S) : i # j => o[i] # o[j]}

NoErr == ""

(***************************************************************************)
(* State.                                                                  *)
(***************************************************************************)
VARIABLES
    acceleratorCm,   \* accelerator config map: name -> [device, cost]
    serviceClassCm,  \* service class config map: key -> YAML document
    wvaScaleToZero,  \* the WVA_SCALE_TO_ZERO environment variable
    vaList,          \* the VariantAutoscalingList of the cycle
    sd,              \* infernoConfig.SystemData under construction
    pc,              \* the cycle's position
    idx,             \* the variant being prepared
    opt,             \* the outcome of VariantAutoscalingsEngine.Optimize
    promAPI,         \* the metrics backend: the answer it gives to each query
    deployment,      \* the Deployment handed to the collector
    optLabels,       \* the labels of the VariantAutoscaling handed to the collector
    acceleratorCostVal, \* the accelerator unit cost handed to the collector
    collected,       \* the outcome of AddMetricsToOptStatus
    metricsCache,    \* the Metrics Cache: model identifier -> CachedMetrics
    lastPut,         \* history: the arguments of the latest Put of each model
    lastOp,          \* history: the latest cache operation and its result
    mu,              \* the holder of the cache lock, or Free
    cpc,             \* the position of each reconciliation cycle in its cache call
    creq,            \* the cache call each reconciliation cycle is making
    ops,             \* the number of cache calls each reconciliation cycle made
    arg,             \* the argument of a helper function being called
    ret,             \* the outcome of that call
    retry,           \* a call of a backoff wrapper: its position, steps left and outcome
    ctxDone          \* whether the context of that call is done

cycleVars == <<acceleratorCm, serviceClassCm, wvaScaleToZero, vaList, sd, pc, idx, opt>>
collectVars == <<promAPI, deployment, optLabels, acceleratorCostVal, collected>>
cacheVars == <<metricsCache, lastPut, lastOp>>
lockVars == <<mu, cpc, creq, ops>>
callVars == <<arg, ret>>
retryVars == <<retry, ctxDone>>

vars == <<cycleVars, collectVars, cacheVars, lockVars, callVars, retryVars>>

(***************************************************************************)
(* System data builder (internal/utils).                                   *)
(***************************************************************************)
\* yaml.Unmarshal of a service class document: a document is either
\* well-formed, carrying the ServiceClass it encodes, or malformed.
YamlUnmarshal(val) == [err |-> ~val.ok, sc |-> val.sc]

\* An accelerator reader that keeps an accelerator whose cost it cannot parse.
RECURSIVE AcceleratorDataKeepAll(_, _)
AcceleratorDataKeepAll(cm, order) ==
    IF Len(order) = 0 THEN <<>>
    ELSE LET key == Head(order)
         IN  <<[Name |-> key, Type |-> MapGet(cm[key], "device"),
                Multiplicity |-> 1, Cost |-> ParseFloat(MapGet(cm[key], "cost")).f]>>
             \o AcceleratorDataKeepAll(cm, Tail(order))

RECURSIVE AcceleratorData(_, _)
AcceleratorData(cm, order) ==
    IF Len(order) = 0 THEN <<>>
    ELSE LET key == Head(order)
             cost == ParseFloat(MapGet(cm[key], "cost"))
         IN  IF cost.err
             THEN AcceleratorData(cm, Tail(order))
             ELSE <<[Name |-> key, Type |-> MapGet(cm[key], "device"),
                     Multiplicity |-> 1, Cost |-> cost.f]>>
                  \o AcceleratorData(cm, Tail(order))

ServiceClassSpecOf(sc) ==
    [Name |-> sc.Name, Priority |-> sc.Priority,
     ModelTargets |-> [i \in 1..Len(sc.Data) |->
        [Model |-> sc.Data[i].Model, SLO_ITL |-> sc.Data[i].SLOTPOT,
         SLO_TTFT |-> sc.Data[i].SLOTTFT]]]

RECURSIVE ServiceClassData(_, _)
ServiceClassData(cm, order) ==
    IF Len(order) = 0 THEN <<>>
    ELSE LET y == YamlUnmarshal(cm[Head(order)])
         IN  IF y.err
             THEN ServiceClassData(cm, Tail(order))
             ELSE <<ServiceClassSpecOf(y.sc)>> \o ServiceClassData(cm, Tail(order))

\* CreateSystemData, its two range loops visiting the maps in the given orders.
CreateSystemData(accCm, scCm, accOrder, scOrder) ==
    [Accelerators |-> AcceleratorData(accCm, accOrder),
     Capacity |-> <<>>,
     ServiceClasses |-> ServiceClassData(scCm, scOrder),
     Unlimited |-> TRUE,
     PerfData |-> <<>>,
     Servers |-> <<>>]

\* FindModelSLO, its range loop visiting the map in the given order.
RECURSIVE FindModelSLO(_, _, _)
FindModelSLO(cmData, targetModel, order) ==
    IF Len(order) = 0
    THEN [err |-> "model not found in any service class", class |-> "", entry |-> <<>>]
    ELSE LET y == YamlUnmarshal(cmData[Head(order)])
             hits == IF y.err THEN {}
                     ELSE {i \in 1..Len(y.sc.Data) : y.sc.Data[i].Model = targetModel}
         IN  IF y.err
             THEN [err |-> "failed to parse", class |-> "", entry |-> <<>>]
             ELSE IF hits # {}
             THEN [err |-> NoErr, class |-> y.sc.Name,
                   entry |-> <<y.sc.Data[CHOOSE i \in hits : \A j \in hits : i <= j]>>]
             ELSE FindModelSLO(cmData, targetModel, Tail(order))

\* A profile reader that takes a coefficient it cannot parse for 0.
AddVariantProfileToSystemDataLax(s, modelName, accelerator, acceleratorCount, variantProfile) ==
    LET decodeParms == variantProfile.PerfParms.DecodeParms
        prefillParms == variantProfile.PerfParms.PrefillParms
    IN  IF Cardinality(DOMAIN decodeParms) < 2
        THEN [sd |-> s, err |-> "length of decodeParms should be 2"]
        ELSE IF Cardinality(DOMAIN prefillParms) < 2
        THEN [sd |-> s, err |-> "length of prefillParms should be 2"]
        ELSE [sd |-> [s EXCEPT !.PerfData = Append(@,
                        [Name |-> modelName, Acc |-> accelerator,
                         AccCount |-> acceleratorCount,
                         MaxBatchSize |-> variantProfile.MaxBatchSize,
                         Alpha |-> ParseFloat(MapGet(decodeParms, "alpha")).f,
                         Beta |-> ParseFloat(MapGet(decodeParms, "beta")).f,
                         Gamma |-> ParseFloat(MapGet(prefillParms, "gamma")).f,
                         Delta |-> ParseFloat(MapGet(prefillParms, "delta")).f])],
              err |-> NoErr]

\* AddVariantProfileToSystemData: the new system data and the error.
AddVariantProfileToSystemData(s, modelName, accelerator, acceleratorCount, variantProfile) ==
    LET decodeParms == variantProfile.PerfParms.DecodeParms
        prefillParms == variantProfile.PerfParms.PrefillParms
        alpha == ParseFloat(MapGet(decodeParms, "alpha"))
        beta == ParseFloat(MapGet(decodeParms, "beta"))
        gamma == ParseFloat(MapGet(prefillParms, "gamma"))
        delta == ParseFloat(MapGet(prefillParms, "delta"))
    IN  IF Cardinality(DOMAIN decodeParms) < 2
        THEN [sd |-> s, err |-> "length of decodeParms should be 2"]
        ELSE IF alpha.err \/ beta.err THEN [sd |-> s, err |-> "parse error"]
        ELSE IF Cardinality(DOMAIN prefillParms) < 2
        THEN [sd |-> s, err |-> "length of prefillParms should be 2"]
        ELSE IF gamma.err \/ delta.err THEN [sd |-> s, err |-> "parse error"]
        ELSE [sd |-> [s EXCEPT !.PerfData = Append(@,
                        [Name |-> modelName, Acc |-> accelerator,
                         AccCount |-> acceleratorCount,
                         MaxBatchSize |-> variantProfile.MaxBatchSize,
                         Alpha |-> alpha.f, Beta |-> beta.f,
                         Gamma |-> gamma.f, Delta |-> delta.f])],
              err |-> NoErr]

\* Helper to create a (unique) full name from name and namespace.
FullName(name, namespace) == name \o ":" \o namespace

\* Helper to check if a value is valid (not NaN or infinite).
CheckValue(v) == ~(IsNaN(v) \/ IsInf(v))

\* A reading that zeroes only what does not parse.
ParseOrZeroUnchecked(str) ==
    LET p == ParseFloat(str) IN IF p.err THEN Num(0) ELSE p.f

\* A status string read as the builder reads it: zero unless it parses to a
\* finite value.
ParseOrZero(str) ==
    LET p == ParseFloat(str) IN IF p.err \/ ~CheckValue(p.f) THEN Num(0) ELSE p.f

\* A builder that leaves the flag at its zero value.
ServerKeepAcceleratorUnset == FALSE

\* The KeepAccelerator flag AddServerInfoToSystemData gives every server entry.
ServerKeepAccelerator == TRUE

\* AddServerInfoToSystemData: the new system data and the error.
AddServerInfoToSystemData(s, va, className, scaleToZeroEnv) ==
    LET arrivalRate == ParseOrZero(va.Status.Load.ArrivalRate)
        avgOutputTokens == ParseOrZero(va.Status.Load.AvgOutputTokens)
        avgInputTokens == ParseOrZero(va.Status.Load.AvgInputTokens)
        serverLoadSpec == [ArrivalRate |-> arrivalRate,
                           AvgInTokens |-> TruncToInt(avgInputTokens),
                           AvgOutTokens |-> TruncToInt(avgOutputTokens)]
        currentAlloc == va.Status.CurrentAllocs[1]
        allocationData == [Accelerator |-> currentAlloc.Accelerator,
                           NumReplicas |-> currentAlloc.NumReplicas,
                           MaxBatch |-> currentAlloc.MaxBatch,
                           Cost |-> ParseOrZero(currentAlloc.VariantCost),
                           ITLAverage |-> ParseOrZero(va.Status.ITLAverage),
                           TTFTAverage |-> ParseOrZero(va.Status.TTFTAverage),
                           Load |-> serverLoadSpec]
        minNumReplicas == IF scaleToZeroEnv = "true" THEN 0 ELSE 1
        serverSpec == [Name |-> FullName(va.Name, va.Namespace),
                       Class |-> className,
                       Model |-> va.Spec.ModelID,
                       KeepAccelerator |-> ServerKeepAccelerator,
                       MinNumReplicas |-> minNumReplicas,
                       CurrentAlloc |-> allocationData,
                       MaxBatchSize |-> IF va.Spec.VariantProfile.MaxBatchSize > 0
                                        THEN va.Spec.VariantProfile.MaxBatchSize ELSE 0]
    IN  IF Len(va.Status.CurrentAllocs) = 0
        THEN [sd |-> s, err |-> "no current allocations found for variant"]
        ELSE [sd |-> [s EXCEPT !.Servers = Append(@, serverSpec)], err |-> NoErr]

\* The per-variant scale-to-zero setting is a pointer to a boolean: "unset"
\* stands for nil, "true" and "false" for the value it points to.
\* A reading of the setting that looks at the global switch only.
IsScaleToZeroEnabledGlobalOnly(va, env) == ToLower(env) = "true"

\* IsScaleToZeroEnabled: the variant's own setting if it has one, else the
\* global switch, compared with "true" without regard to case.
IsScaleToZeroEnabled(va, env) ==
    IF va.Spec.EnableScaleToZero # "unset"
    THEN va.Spec.EnableScaleToZero = "true"
    ELSE ToLower(env) = "true"

GetMinNumReplicas(va, env) == IF IsScaleToZeroEnabled(va, env) THEN 0 ELSE 1

\* AddModelAcceleratorProfileToSystemData: the profile reader for a variant
\* that lists one profile per accelerator; the same checks and the same entry
\* as AddVariantProfileToSystemData.
AddModelAcceleratorProfileToSystemData(s, modelName, modelAcceleratorProfile) ==
    AddVariantProfileToSystemData(s, modelName, modelAcceleratorProfile.Acc,
                                  modelAcceleratorProfile.AccCount,
                                  [PerfParms |-> modelAcceleratorProfile.PerfParms,
                                   MaxBatchSize |-> modelAcceleratorProfile.MaxBatchSize])

\* The max batch size of the first profile for the named accelerator, else 0.
RECURSIVE ProfileMaxBatchSize(_, _)
ProfileMaxBatchSize(accelerators, accName) ==
    IF Len(accelerators) = 0 THEN 0
    ELSE IF Head(accelerators).Acc = accName THEN Head(accelerators).MaxBatchSize
    ELSE ProfileMaxBatchSize(Tail(accelerators), accName)

\* AddServerInfoToSystemData for a variant with a single current allocation
\* and a scale-to-zero setting of its own.
AddServerInfoToSystemDataCurrentAlloc(s, va, className, env) ==
    LET currentAlloc == va.Status.CurrentAlloc
        serverLoadSpec == [ArrivalRate |-> ParseOrZero(currentAlloc.Load.ArrivalRate),
                           AvgInTokens |-> TruncToInt(ParseOrZero(currentAlloc.Load.AvgInputTokens)),
                           AvgOutTokens |-> TruncToInt(ParseOrZero(currentAlloc.Load.AvgOutputTokens))]
        allocationData == [Accelerator |-> currentAlloc.Accelerator,
                           NumReplicas |-> currentAlloc.NumReplicas,
                           MaxBatch |-> currentAlloc.MaxBatch,
                           Cost |-> ParseOrZero(currentAlloc.VariantCost),
                           ITLAverage |-> ParseOrZero(currentAlloc.ITLAverage),
                           TTFTAverage |-> ParseOrZero(currentAlloc.TTFTAverage),
                           Load |-> serverLoadSpec]
        minNumReplicas == GetMinNumReplicas(va, env)
        maxBatchSize == ProfileMaxBatchSize(va.Spec.ModelProfile.Accelerators,
                                            MapGet(va.Labels, "inference.optimization/acceleratorName"))
        serverSpec == [Name |-> FullName(va.Name, va.Namespace),
                       Class |-> className,
                       Model |-> va.Spec.ModelID,
                       KeepAccelerator |-> ServerKeepAccelerator,
                       MinNumReplicas |-> minNumReplicas,
                       CurrentAlloc |-> allocationData,
                       MaxBatchSize |-> IF maxBatchSize > 0 THEN maxBatchSize ELSE 0]
    IN  [sd |-> [s EXCEPT !.Servers = Append(@, serverSpec)], err |-> NoErr]

\* strings.ReplaceAll for a one-character pattern.
RECURSIVE ReplaceAll(_, _, _)
ReplaceAll(s, old, new) ==
    IF Len(s) = 0 THEN ""
    ELSE (IF Char(s, 1) = old THEN new ELSE Char(s, 1))
         \o ReplaceAll(SubSeq(s, 2, Len(s)), old, new)

\* The characters [a-z0-9-].
NameChars ==
    {Char(LowerChars, i) : i \in 1..26} \cup {Char(DigitChars, i) : i \in 1..10} \cup {"-"}

\* regexp [^a-z0-9-] replaced by "": the characters outside the class are
\* dropped.
RECURSIVE RemoveInvalid(_)
RemoveInvalid(s) ==
    IF Len(s) = 0 THEN ""
    ELSE (IF Char(s, 1) \in NameChars THEN Char(s, 1) ELSE "")
         \o RemoveInvalid(SubSeq(s, 2, Len(s)))

\* strings.Trim for a one-character cutset: what lies between the first and
\* the last character that is not in the cutset.
Trim(s, cutset) ==
    LET kept == {i \in 1..Len(s) : Char(s, i) # cutset}
    IN  IF kept = {} THEN ""
        ELSE SubSeq(s, CHOOSE i \in kept : \A j \in kept : i <= j,
                       CHOOSE i \in kept : \A j \in kept : i >= j)

\* A name suggestion that does not trim the hyphens.
SuggestResourceNameUntrimmed(variantID) ==
    RemoveInvalid(ReplaceAll(ReplaceAll(ToLower(variantID), "/", "-"), ".", "-"))

SuggestResourceNameFromVariantID(variantID) ==
    Trim(RemoveInvalid(ReplaceAll(ReplaceAll(ToLower(variantID), "/", "-"), ".", "-")), "-")

\* StandardBackoff.Steps: the number of attempts a call with the standard
\* backoff makes at most.
StandardBackoffSteps == 5

\* ReconcileBackoff.Steps and PrometheusBackoff.Steps.
ReconcileBackoffSteps == 5
PrometheusBackoffSteps == 6

\* A condition that takes every error of the Get for a transient one.
GetResourceConditionRetryAll(err) == [done |-> err = NoErr, err |-> NoErr]

\* The condition GetResourceWithBackoff hands to the backoff loop, after its
\* Get returned err (NoErr is the nil error, "NotFound" an error for which
\* apierrors.IsNotFound holds): whether the loop is done, and the error that
\* ends it.
GetResourceCondition(err) ==
    IF err # NoErr
    THEN IF err = "NotFound"
         THEN [done |-> FALSE, err |-> err]
         ELSE [done |-> FALSE, err |-> NoErr]
    ELSE [done |-> TRUE, err |-> NoErr]

\* A condition that takes every error of the status update for a transient
\* one.
UpdateStatusConditionRetryAll(err) == [done |-> err = NoErr, err |-> NoErr]

\* The condition UpdateStatusWithBackoff hands to the backoff loop, after its
\* Status().Update returned err ("Invalid" and "Forbidden" are the errors for
\* which apierrors.IsInvalid and apierrors.IsForbidden hold).
UpdateStatusCondition(err) ==
    IF err # NoErr
    THEN IF err = "Invalid" \/ err = "Forbidden"
         THEN [done |-> FALSE, err |-> err]
         ELSE [done |-> FALSE, err |-> NoErr]
    ELSE [done |-> TRUE, err |-> NoErr]

\* A validation that gives up at the first failed query and reports success.
ValidatePrometheusConditionGiveUp(err) == [done |-> TRUE, err |-> NoErr]

\* The condition ValidatePrometheusAPIWithBackoff hands to the backoff loop,
\* after its query "up" returned err: every error is retried.
ValidatePrometheusCondition(err) ==
    IF err # NoErr
    THEN [done |-> FALSE, err |-> NoErr]
    ELSE [done |-> TRUE, err |-> NoErr]

(***************************************************************************)
(* The solver: the Performance Model and the Allocation Optimizer.         *)
(***************************************************************************)
\* Predicted inter-token latency and time to first token, in hundredths.
ITL(alpha, beta, batchSize) == alpha + beta * batchSize
TTFT(gamma, delta, avgInputTokens, batchSize) == gamma + delta * avgInputTokens * batchSize

\* The per-replica batch size when the arrival rate (hundredths of a request)
\* is spread evenly over n replicas, rounded up to whole requests.
EffectiveBatch(rate, n) == IF rate <= 0 THEN 0 ELSE (rate + 100 * n - 1) \div (100 * n)

\* The performance profile of (model, accelerator): the entry added last.
PerfIndices(s, model, acc) ==
    {i \in 1..Len(s.PerfData) : s.PerfData[i].Name = model /\ s.PerfData[i].Acc = acc}
HasPerf(s, model, acc) == PerfIndices(s, model, acc) # {}
PerfOf(s, model, acc) ==
    s.PerfData[CHOOSE i \in PerfIndices(s, model, acc) :
                   \A j \in PerfIndices(s, model, acc) : j <= i]

AccIndices(s, acc) == {i \in 1..Len(s.Accelerators) : s.Accelerators[i].Name = acc}
HasAcc(s, acc) == AccIndices(s, acc) # {}
UnitCost(s, acc) == s.Accelerators[CHOOSE i \in AccIndices(s, acc) : TRUE].Cost.v

\* The SLO targets of the server's model in its service class.
ClassesNamed(s, name) ==
    {s.ServiceClasses[k] : k \in {j \in 1..Len(s.ServiceClasses) : s.ServiceClasses[j].Name = name}}
Targets(s, server) ==
    UNION {{c.ModelTargets[i] :
               i \in {j \in 1..Len(c.ModelTargets) : c.ModelTargets[j].Model = server.Model}} :
           c \in ClassesNamed(s, server.Class)}
HasTarget(s, server) == Targets(s, server) # {}
TargetOf(s, server) == CHOOSE t \in Targets(s, server) : TRUE

Finite4(p) == /\ CheckValue(p.Alpha) /\ CheckValue(p.Beta)
              /\ CheckValue(p.Gamma) /\ CheckValue(p.Delta)

\* Whether n replicas on acc meet both SLO targets of the server; no load on
\* no replica is no constraint.
MeetsSLO(s, server, acc, n) ==
    LET p == PerfOf(s, server.Model, acc)
        t == TargetOf(s, server)
        load == server.CurrentAlloc.Load
        b == EffectiveBatch(load.ArrivalRate.v, n)
    IN  IF n = 0 THEN load.ArrivalRate.v = 0
        ELSE /\ Finite4(p)
             /\ ITL(p.Alpha.v, p.Beta.v, b) <= t.SLO_ITL
             /\ TTFT(p.Gamma.v, p.Delta.v, load.AvgInTokens, b) <= t.SLO_TTFT

Feasible(s, server, acc, n) ==
    /\ HasAcc(s, acc)
    /\ HasPerf(s, server.Model, acc)
    /\ HasTarget(s, server)
    /\ n >= server.MinNumReplicas
    /\ n <= MaxReplicas
    /\ MeetsSLO(s, server, acc, n)

\* The candidate accelerators of a server.
Candidates(s, server) ==
    IF server.KeepAccelerator
    THEN {server.CurrentAlloc.Accelerator}
    ELSE {s.PerfData[i].Acc : i \in {j \in 1..Len(s.PerfData) : s.PerfData[j].Name = server.Model}}

\* A search that keeps the last feasible replica count it meets, not the first.
RECURSIVE SearchReplicasLast(_, _, _, _)
SearchReplicasLast(s, server, acc, n) ==
    IF n > MaxReplicas THEN -1
    ELSE LET rest == SearchReplicasLast(s, server, acc, n + 1)
         IN  IF rest >= 0 THEN rest
             ELSE IF Feasible(s, server, acc, n) THEN n ELSE -1

\* A search that falls back to the replica floor when nothing is feasible.
RECURSIVE SearchReplicasFallback(_, _, _, _)
SearchReplicasFallback(s, server, acc, n) ==
    IF n > MaxReplicas THEN server.MinNumReplicas
    ELSE IF Feasible(s, server, acc, n) THEN n
    ELSE SearchReplicasFallback(s, server, acc, n + 1)

\* Linear search for the smallest feasible replica count from n up to the
\* ceiling; -1 when there is none.
RECURSIVE SearchReplicas(_, _, _, _)
SearchReplicas(s, server, acc, n) ==
    IF n > MaxReplicas THEN -1
    ELSE IF Feasible(s, server, acc, n) THEN n
    ELSE SearchReplicas(s, server, acc, n + 1)

AllocCost(s, acc, n) == n * UnitCost(s, acc)

\* The (accelerator, replicas) pairs the search yields for a server.
Found(s, server) ==
    {pr \in {[Accelerator |-> a, NumReplicas |-> SearchReplicas(s, server, a, server.MinNumReplicas)] :
                a \in Candidates(s, server)} : pr.NumReplicas >= 0}

\* a is preferred to b: lower cost, then the current accelerator, then fewer
\* replicas, then the accelerator's name.
Prefer(s, server, a, b) ==
    LET ca == AllocCost(s, a.Accelerator, a.NumReplicas)
        cb == AllocCost(s, b.Accelerator, b.NumReplicas)
        cur == server.CurrentAlloc.Accelerator
    IN  \/ ca < cb
        \/ /\ ca = cb
           /\ \/ a.Accelerator = cur
              \/ /\ b.Accelerator # cur
                 /\ \/ a.NumReplicas < b.NumReplicas
                    \/ /\ a.NumReplicas = b.NumReplicas
                       /\ \A i \in AccIndices(s, a.Accelerator), j \in AccIndices(s, b.Accelerator) :
                             i <= j

SelectAllocation(s, server) ==
    CHOOSE a \in Found(s, server) : \A b \in Found(s, server) : Prefer(s, server, a, b)

\* The allocation solution: one decision for each server that is not
\* infeasible, keyed by the server's name.
GenerateSolution(s) ==
    LET feasible == {i \in 1..Len(s.Servers) : Found(s, s.Servers[i]) # {}}
        names == {s.Servers[i].Name : i \in feasible}
    IN  [name \in names |->
            SelectAllocation(s, s.Servers[CHOOSE i \in feasible : s.Servers[i].Name = name])]

(***************************************************************************)
(* The optimizer engine.                                                   *)
(***************************************************************************)
\* CreateOptimizedAlloc: the optimized allocation of a variant, or an error.
\* Optimize passes the variant id, but the function has no parameter for it
\* and sets the accelerator and the replica count only: the VariantID of the
\* OptimizedAlloc keeps its zero value.
CreateOptimizedAlloc(name, namespace, variantID, allocationSolution) ==
    LET serverName == FullName(name, namespace)
    IN  IF serverName \notin DOMAIN allocationSolution
        THEN [err |-> "server not found", alloc |-> <<>>]
        ELSE [err |-> NoErr,
              alloc |-> [VariantID |-> "",
                         Accelerator |-> allocationSolution[serverName].Accelerator,
                         NumReplicas |-> allocationSolution[serverName].NumReplicas]]

\* The loop of Optimize over vaList.Items, from the map built so far.
RECURSIVE OptimizedAllocMap(_, _, _)
OptimizedAllocMap(items, allocationSolution, m) ==
    IF Len(items) = 0 THEN m
    ELSE LET va == Head(items)
             r == CreateOptimizedAlloc(va.Name, va.Namespace, va.Spec.VariantID, allocationSolution)
         IN  OptimizedAllocMap(Tail(items), allocationSolution,
                 IF r.err = NoErr
                 THEN [k \in DOMAIN m \cup {va.Name} |-> IF k = va.Name THEN r.alloc ELSE m[k]]
                 ELSE m)

EmptyMap == [k \in {} |-> <<>>]

\* A solution counts as empty when it is nil or has no entry.
SolutionEmpty(sol) == sol.nil \/ DOMAIN sol.Spec = {}

\* An Optimize that does not check the solution for emptiness.
EngineOptimizeUnchecked(items, managerErr, sol) ==
    IF managerErr # NoErr
    THEN [nil |-> FALSE, map |-> EmptyMap, err |-> managerErr]
    ELSE [nil |-> FALSE, map |-> OptimizedAllocMap(items, sol.Spec, EmptyMap), err |-> NoErr]

\* VariantAutoscalingsEngine.Optimize: managerErr is the error of the manager's
\* Optimize ("" for none), sol the solution the system generates.
EngineOptimize(items, managerErr, sol) ==
    IF managerErr # NoErr
    THEN [nil |-> FALSE, map |-> EmptyMap, err |-> managerErr]
    ELSE IF SolutionEmpty(sol)
    THEN [nil |-> FALSE, map |-> EmptyMap,
          err |-> "no feasible allocations found for all variants"]
    ELSE [nil |-> FALSE, map |-> OptimizedAllocMap(items, sol.Spec, EmptyMap), err |-> NoErr]

(***************************************************************************)
(* Inputs of an optimization cycle.                                        *)
(***************************************************************************)
AcceleratorNames == {"A100", "L40"}

DefaultAcceleratorCm ==
    [a \in AcceleratorNames |->
        [device |-> a, cost |-> IF a = "A100" THEN "2.00" ELSE "1.00"]]

\* One service class: model "m" with SLO-ITL 2.00 and SLO-TTFT 2.00.
DefaultServiceClassCm ==
    [k \in {"premium"} |->
        [ok |-> TRUE,
         sc |-> [Name |-> "Premium", Priority |-> 1,
                 Data |-> <<[Model |-> "m", SLOTPOT |-> 200, SLOTTFT |-> 200]>>]]]

\* Two performance profiles: ITL = 1 + b, TTFT = b, and ITL = 3 - b, TTFT = b.
ProfileA ==
    [PerfParms |-> [DecodeParms |-> [alpha |-> "1.00", beta |-> "1.00"],
                    PrefillParms |-> [gamma |-> "0.00", delta |-> "1.00"]],
     MaxBatchSize |-> 4]
ProfileB ==
    [PerfParms |-> [DecodeParms |-> [alpha |-> "3.00", beta |-> "-1.00"],
                    PrefillParms |-> [gamma |-> "0.00", delta |-> "1.00"]],
     MaxBatchSize |-> 4]

CurrentAllocOn(acc) ==
    [VariantID |-> "m-" \o acc \o "-1", Accelerator |-> acc, NumReplicas |-> 1,
     MaxBatch |-> 4, VariantCost |-> "2.00"]

\* The shapes of a variant: its accelerator, its profile and its current
\* allocations (one, on its accelerator, or none yet).
Shapes ==
    {[acc |-> "A100", prof |-> ProfileA, allocs |-> <<CurrentAllocOn("A100")>>],
     [acc |-> "L40", prof |-> ProfileB, allocs |-> <<CurrentAllocOn("L40")>>],
     [acc |-> "A100", prof |-> ProfileB, allocs |-> <<>>]}

\* The (name, namespace) identities of the variants, in list order.
Identities == <<[Name |-> "a", Namespace |-> "ns1"],
                [Name |-> "a", Namespace |-> "ns2"],
                [Name |-> "b", Namespace |-> "ns1"]>>

RateStrings == {FormatFloat(Num(100 * r)) : r \in 0..MaxRate}

Variant(id, shape, rate) ==
    [Name |-> id.Name, Namespace |-> id.Namespace,
     Spec |-> [ModelID |-> "m", VariantID |-> "m-" \o shape.acc \o "-1",
               Accelerator |-> shape.acc, AcceleratorCount |-> 1,
               VariantProfile |-> shape.prof],
     Status |-> [Load |-> [ArrivalRate |-> rate, AvgInputTokens |-> "1.00",
                           AvgOutputTokens |-> "1.00"],
                 ITLAverage |-> "0.00", TTFTAverage |-> "0.00",
                 CurrentAllocs |-> shape.allocs]]

\* The variant lists: up to MaxVariants variants of distinct identities, in
\* the order of their identities.
IdentityChoices ==
    {c \in SUBSET (1..Len(Identities)) : Cardinality(c) <= MaxVariants}

RECURSIVE SortedSeq(_)
SortedSeq(c) ==
    IF c = {} THEN <<>>
    ELSE LET m == CHOOSE i \in c : \A j \in c : i <= j
         IN  <<m>> \o SortedSeq(c \ {m})

VariantLists ==
    UNION {{[i \in 1..Cardinality(c) |->
                Variant(Identities[SortedSeq(c)[i]], sh[SortedSeq(c)[i]], rt[SortedSeq(c)[i]])] :
              sh \in [c -> Shapes], rt \in [c -> RateStrings]} :
           c \in IdentityChoices}

(***************************************************************************)
(* The optimization cycle: build the system data, then optimize.           *)
(***************************************************************************)
NotCalled == [called |-> FALSE]

\* The parts of the state a specification does not use stay as they are here.
CycleIdle ==
    /\ acceleratorCm = DefaultAcceleratorCm
    /\ serviceClassCm = DefaultServiceClassCm
    /\ wvaScaleToZero = "false"
    /\ vaList = <<>>
    /\ sd = <<>>
    /\ pc = "idle"
    /\ idx = 1
    /\ opt = NotCalled

CollectIdle ==
    /\ promAPI = <<>>
    /\ deployment = <<>>
    /\ optLabels = <<>>
    /\ acceleratorCostVal = Num(0)
    /\ collected = NotCalled

CacheIdle ==
    /\ metricsCache = EmptyMap
    /\ lastPut = EmptyMap
    /\ lastOp = NotCalled

LockIdle ==
    /\ mu = "free"
    /\ cpc = EmptyMap
    /\ creq = EmptyMap
    /\ ops = EmptyMap

CallIdle ==
    /\ arg = <<>>
    /\ ret = NotCalled

RetryIdle ==
    /\ retry = NotCalled
    /\ ctxDone = FALSE

Init ==
    /\ CollectIdle /\ CacheIdle /\ LockIdle /\ CallIdle /\ RetryIdle
    /\ acceleratorCm = DefaultAcceleratorCm
    /\ serviceClassCm = DefaultServiceClassCm
    /\ wvaScaleToZero \in {"true", "false"}
    /\ vaList \in VariantLists
    /\ sd = <<>>
    /\ pc = "create"
    /\ idx = 1
    /\ opt = NotCalled

\* The position after variant idx: the next variant, or the optimizer.
Advance ==
    /\ idx' = idx + 1
    /\ pc' = IF idx + 1 <= Len(vaList) THEN "profile" ELSE "optimize"

DoCreateSystemData ==
    /\ pc = "create"
    /\ \E accOrder \in Orders(DOMAIN acceleratorCm), scOrder \in Orders(DOMAIN serviceClassCm) :
          sd' = CreateSystemData(acceleratorCm, serviceClassCm, accOrder, scOrder)
    /\ pc' = IF Len(vaList) >= 1 THEN "profile" ELSE "optimize"
    /\ UNCHANGED <<acceleratorCm, serviceClassCm, wvaScaleToZero, vaList, idx, opt>>
    /\ UNCHANGED <<collectVars, cacheVars, lockVars>>
    /\ UNCHANGED <<callVars, retryVars>>

\* A variant whose profile is rejected is skipped.
DoAddVariantProfile ==
    /\ pc = "profile"
    /\ LET va == vaList[idx]
           r == AddVariantProfileToSystemData(sd, va.Spec.ModelID, va.Spec.Accelerator,
                                              va.Spec.AcceleratorCount, va.Spec.VariantProfile)
       IN  /\ sd' = r.sd
           /\ IF r.err = NoErr THEN pc' = "server" /\ idx' = idx ELSE Advance
    /\ UNCHANGED <<acceleratorCm, serviceClassCm, wvaScaleToZero, vaList, opt>>
    /\ UNCHANGED <<collectVars, cacheVars, lockVars>>
    /\ UNCHANGED <<callVars, retryVars>>

\* A variant whose model has no SLO, or that has no current allocation, gets
\* no server entry.
DoAddServerInfo ==
    /\ pc = "server"
    /\ \E order \in Orders(DOMAIN serviceClassCm) :
          LET va == vaList[idx]
              slo == FindModelSLO(serviceClassCm, va.Spec.ModelID, order)
          IN  sd' = IF slo.err = NoErr
                    THEN AddServerInfoToSystemData(sd, va, slo.class, wvaScaleToZero).sd
                    ELSE sd
    /\ Advance
    /\ UNCHANGED <<acceleratorCm, serviceClassCm, wvaScaleToZero, vaList, opt>>
    /\ UNCHANGED <<collectVars, cacheVars, lockVars>>
    /\ UNCHANGED <<callVars, retryVars>>

ManagerErrors == {NoErr, "optimization failed"}

Optimize ==
    /\ pc = "optimize"
    /\ \E managerErr \in ManagerErrors, nilSolution \in BOOLEAN :
          /\ managerErr # NoErr => ~nilSolution
          /\ LET sol == [nil |-> nilSolution,
                         Spec |-> IF nilSolution THEN EmptyMap ELSE GenerateSolution(sd)]
             IN  opt' = [called |-> TRUE, managerErr |-> managerErr, solution |-> sol,
                         result |-> EngineOptimize(vaList, managerErr, sol)]
    /\ pc' = "done"
    /\ UNCHANGED <<acceleratorCm, serviceClassCm, wvaScaleToZero, vaList, sd, idx>>
    /\ UNCHANGED <<collectVars, cacheVars, lockVars>>
    /\ UNCHANGED <<callVars, retryVars>>

Next ==
    \/ DoCreateSystemData
    \/ DoAddVariantProfile
    \/ DoAddServerInfo
    \/ Optimize

Spec == Init /\ [][Next]_vars

(***************************************************************************)
(* Properties of the optimization cycle.                                   *)
(***************************************************************************)
Solved == opt.called /\ opt.managerErr = NoErr /\ ~opt.solution.nil

ServerIndices == 1..Len(sd.Servers)

\* The candidate (accelerator, replicas) pairs of a server that meet its SLO
\* with at least its replica floor.
FeasiblePairs(s, server) ==
    {pr \in [Accelerator : Candidates(s, server), NumReplicas : 0..MaxReplicas] :
        Feasible(s, server, pr.Accelerator, pr.NumReplicas)}

PairCost(s, pr) == AllocCost(s, pr.Accelerator, pr.NumReplicas)

\* C1: every server that has a feasible candidate pair has an entry in the
\* solution, and its entry is a feasible pair (both SLOs met, replica floor
\* respected) than which no feasible candidate pair costs less.
C1_CoverageAndMinimality ==
    Solved =>
        \A i \in ServerIndices :
            LET server == sd.Servers[i]
                pairs == FeasiblePairs(sd, server)
            IN  pairs # {} =>
                    /\ server.Name \in DOMAIN opt.solution.Spec
                    /\ opt.solution.Spec[server.Name] \in pairs
                    /\ \A q \in pairs :
                          PairCost(sd, opt.solution.Spec[server.Name]) <= PairCost(sd, q)

\* A solved cycle in which one server got more replicas than its floor (the
\* cheaper counts do not meet its SLO) and one server got an entry although a
\* costlier feasible pair existed as well.
C1_Witness ==
    /\ Solved
    /\ \E i \in ServerIndices :
          /\ sd.Servers[i].Name \in DOMAIN opt.solution.Spec
          /\ opt.solution.Spec[sd.Servers[i].Name].NumReplicas > sd.Servers[i].MinNumReplicas
    /\ \E i \in ServerIndices :
          /\ sd.Servers[i].Name \in DOMAIN opt.solution.Spec
          /\ \E q \in FeasiblePairs(sd, sd.Servers[i]) :
                PairCost(sd, q) > PairCost(sd, opt.solution.Spec[sd.Servers[i].Name])

VariantIndices == 1..Len(vaList)

\* C2: a server entry with KeepAccelerator set keeps its current accelerator
\* in the solution, and the accelerator decided for each variant that is in
\* the solution is that variant's current accelerator.
C2_KeepsAccelerator ==
    Solved =>
        /\ \A i \in ServerIndices :
              (sd.Servers[i].KeepAccelerator /\ sd.Servers[i].Name \in DOMAIN opt.solution.Spec)
                 => opt.solution.Spec[sd.Servers[i].Name].Accelerator
                       = sd.Servers[i].CurrentAlloc.Accelerator
        /\ \A j \in VariantIndices :
              FullName(vaList[j].Name, vaList[j].Namespace) \in DOMAIN opt.solution.Spec
                 => /\ Len(vaList[j].Status.CurrentAllocs) >= 1
                    /\ opt.solution.Spec[FullName(vaList[j].Name, vaList[j].Namespace)].Accelerator
                          = vaList[j].Status.CurrentAllocs[1].Accelerator

\* A server kept on its current accelerator although another accelerator, for
\* which its model has a profile, would meet the SLO at a lower cost.
C2_Witness ==
    /\ Solved
    /\ \E i \in ServerIndices :
          LET server == sd.Servers[i]
              free == [server EXCEPT !.KeepAccelerator = FALSE]
          IN  /\ server.Name \in DOMAIN opt.solution.Spec
              /\ opt.solution.Spec[server.Name].Accelerator = server.CurrentAlloc.Accelerator
              /\ \E q \in FeasiblePairs(sd, free) :
                    /\ q.Accelerator # server.CurrentAlloc.Accelerator
                    /\ PairCost(sd, q) < PairCost(sd, opt.solution.Spec[server.Name])

\* The system data with the arrival rate of server i replaced.
WithArrivalRate(s, i, rate) ==
    [s EXCEPT !.Servers[i].CurrentAlloc.Load.ArrivalRate = Num(rate)]

Rates == {100 * r : r \in 0..MaxRate}

\* C3: with everything else held fixed, a higher arrival rate of a server never
\* gets it fewer replicas on the same accelerator.
C3_MonotoneInArrivalRate ==
    Solved =>
        \A i \in ServerIndices : \A rate \in Rates :
            LET server == sd.Servers[i]
                more == GenerateSolution(WithArrivalRate(sd, i, rate))
            IN  (/\ rate >= server.CurrentAlloc.Load.ArrivalRate.v
                 /\ server.Name \in DOMAIN opt.solution.Spec
                 /\ server.Name \in DOMAIN more
                 /\ more[server.Name].Accelerator = opt.solution.Spec[server.Name].Accelerator)
                => more[server.Name].NumReplicas >= opt.solution.Spec[server.Name].NumReplicas

\* A server whose replica count strictly grows with a higher arrival rate.
C3_Witness ==
    /\ Solved
    /\ \E i \in ServerIndices : \E rate \in Rates :
          LET server == sd.Servers[i]
              more == GenerateSolution(WithArrivalRate(sd, i, rate))
          IN  /\ rate > server.CurrentAlloc.Load.ArrivalRate.v
              /\ server.Name \in DOMAIN opt.solution.Spec
              /\ server.Name \in DOMAIN more
              /\ opt.solution.Spec[server.Name].NumReplicas >= 1
              /\ more[server.Name].NumReplicas > opt.solution.Spec[server.Name].NumReplicas

\* C5: Optimize fails whenever the solver fails or the solution is nil or
\* empty; a failing call returns an empty, non-nil map; a successful call had
\* a non-empty solution.
C5_FailsOnEmptySolution ==
    opt.called =>
        /\ (opt.managerErr # NoErr \/ SolutionEmpty(opt.solution)) => opt.result.err # NoErr
        /\ opt.result.err # NoErr => (~opt.result.nil /\ DOMAIN opt.result.map = {})
        /\ opt.result.err = NoErr => (opt.managerErr = NoErr /\ ~SolutionEmpty(opt.solution))

\* The solver succeeded for a cycle with variants, none of them feasible, and
\* Optimize reported the failure.
C5_Witness ==
    /\ opt.called
    /\ opt.managerErr = NoErr
    /\ ~opt.solution.nil
    /\ Len(vaList) >= 1
    /\ DOMAIN opt.solution.Spec = {}
    /\ opt.result.err # NoErr

InSolution(va) == FullName(va.Name, va.Namespace) \in DOMAIN opt.solution.Spec

\* C6: with a non-empty solution the call succeeds, a variant absent from the
\* solution does not make it fail, and every variant present in the solution
\* receives the accelerator and replica count the solution holds for it.
C6_IsolatedPerVariant ==
    (Solved /\ ~SolutionEmpty(opt.solution)) =>
        /\ opt.result.err = NoErr
        /\ \A j \in VariantIndices :
              IF InSolution(vaList[j])
              THEN /\ vaList[j].Name \in DOMAIN opt.result.map
                   /\ LET alloc == opt.result.map[vaList[j].Name]
                           solved == opt.solution.Spec[FullName(vaList[j].Name,
                                                                vaList[j].Namespace)]
                       IN  /\ alloc.Accelerator = solved.Accelerator
                           /\ alloc.NumReplicas = solved.NumReplicas
              ELSE vaList[j].Name \notin DOMAIN opt.result.map

\* The same for the cycles whose variants all have different names.
C6_HoldsForDistinctNames ==
    (\A j, k \in VariantIndices : j # k => vaList[j].Name # vaList[k].Name)
        => C6_IsolatedPerVariant

(***************************************************************************)
(* Metrics Cache.                                                          *)
(***************************************************************************)
\* m[k] = v of a Go map.
Store(m, k, v) == [x \in (DOMAIN m) \cup {k} |-> IF x = k THEN v ELSE m[x]]

ZeroCachedMetrics ==
    [Load |-> "", RetentionPeriod |-> 0, TotalRequestsOverRetentionPeriod |-> 0,
     LastUpdated |-> 0]

\* A Get that takes a zero total-request count for a missing entry.
GetNonZero(cache, modelID) ==
    IF modelID \in DOMAIN cache /\ cache[modelID].TotalRequestsOverRetentionPeriod # 0
    THEN [found |-> TRUE, entry |-> cache[modelID]]
    ELSE [found |-> FALSE, entry |-> ZeroCachedMetrics]

\* Get(modelID): the entry of the model and whether there is one.
Get(cache, modelID) ==
    IF modelID \in DOMAIN cache
    THEN [found |-> TRUE, entry |-> cache[modelID]]
    ELSE [found |-> FALSE, entry |-> ZeroCachedMetrics]

\* The first half of a Put: the observation and the time it was made.
PutObservation(cache, modelID, observation, now) ==
    Store(cache, modelID,
          [Get(cache, modelID).entry EXCEPT !.Load = observation, !.LastUpdated = now])

\* A second half that keeps the window of an entry the model already has.
PutWindowOnce(cache, modelID, retentionPeriod, totalRequests) ==
    IF Get(cache, modelID).entry.RetentionPeriod # 0
    THEN cache
    ELSE Store(cache, modelID,
               [Get(cache, modelID).entry EXCEPT
                   !.RetentionPeriod = retentionPeriod,
                   !.TotalRequestsOverRetentionPeriod = totalRequests])

\* The second half of a Put: the retention period and the total-request
\* count the caller supplies.
PutWindow(cache, modelID, retentionPeriod, totalRequests) ==
    Store(cache, modelID,
          [Get(cache, modelID).entry EXCEPT
              !.RetentionPeriod = retentionPeriod,
              !.TotalRequestsOverRetentionPeriod = totalRequests])

\* Put(modelID, observation, retentionPeriod, totalRequests, now): the entry
\* of the model is overwritten; the cache computes nothing itself.
Put(cache, modelID, observation, retentionPeriod, totalRequests, now) ==
    PutWindow(PutObservation(cache, modelID, observation, now),
              modelID, retentionPeriod, totalRequests)

(***************************************************************************)
(* The Metrics Cache used by one caller.                                   *)
(***************************************************************************)
ModelIDs == {"m", "n"}
Observations == {"0.00", "5.00"}
RetentionPeriods == {60, 600}
TotalRequests == {0, 7}
Instants == {1, 2}

InitCache ==
    /\ CycleIdle /\ CollectIdle /\ LockIdle /\ CallIdle /\ RetryIdle
    /\ metricsCache = EmptyMap
    /\ lastPut = EmptyMap
    /\ lastOp = NotCalled

DoPut ==
    /\ \E modelID \in ModelIDs, observation \in Observations,
          retentionPeriod \in RetentionPeriods, totalRequests \in TotalRequests,
          now \in Instants :
          /\ metricsCache' = Put(metricsCache, modelID, observation, retentionPeriod,
                                 totalRequests, now)
          /\ lastPut' = Store(lastPut, modelID,
                              [observation |-> observation,
                               retentionPeriod |-> retentionPeriod,
                               totalRequests |-> totalRequests])
          /\ lastOp' = [called |-> TRUE, op |-> "Put", modelID |-> modelID]
    /\ UNCHANGED <<cycleVars, collectVars, lockVars>>
    /\ UNCHANGED <<callVars, retryVars>>

DoGet ==
    /\ \E modelID \in ModelIDs :
          lastOp' = [called |-> TRUE, op |-> "Get", modelID |-> modelID,
                     result |-> Get(metricsCache, modelID)]
    /\ UNCHANGED <<metricsCache, lastPut>>
    /\ UNCHANGED <<cycleVars, collectVars, lockVars>>
    /\ UNCHANGED <<callVars, retryVars>>

NextCache ==
    \/ DoPut
    \/ DoGet

SpecCache == InitCache /\ [][NextCache]_vars

JustGot == lastOp.called /\ lastOp.op = "Get"

\* C7: a Get of a model returns exactly the observation, the retention period
\* and the total-request count of the latest Put of that model, whatever Gets
\* and Puts of other models came in between.
C7_GetReturnsLatestPut ==
    (JustGot /\ lastOp.modelID \in DOMAIN lastPut) =>
        /\ lastOp.result.found
        /\ lastOp.result.entry.Load = lastPut[lastOp.modelID].observation
        /\ lastOp.result.entry.RetentionPeriod = lastPut[lastOp.modelID].retentionPeriod
        /\ lastOp.result.entry.TotalRequestsOverRetentionPeriod
              = lastPut[lastOp.modelID].totalRequests

\* A Get of a model returned its latest Put while the other model holds a
\* different value.
C7_Witness ==
    /\ JustGot
    /\ DOMAIN lastPut = ModelIDs
    /\ lastOp.result.found
    /\ lastOp.result.entry.Load = lastPut[lastOp.modelID].observation
    /\ \E other \in ModelIDs :
          /\ other # lastOp.modelID
          /\ lastPut[other].observation # lastPut[lastOp.modelID].observation
          /\ lastPut[other].totalRequests # lastPut[lastOp.modelID].totalRequests

\* C8: Get reports found exactly when the model was Put before; a model Put
\* with a total-request count of 0 is found, with count 0.
C8_FoundIffPut ==
    JustGot =>
        /\ lastOp.result.found <=> lastOp.modelID \in DOMAIN lastPut
        /\ (lastOp.modelID \in DOMAIN lastPut /\ lastPut[lastOp.modelID].totalRequests = 0)
              => /\ lastOp.result.found
                 /\ lastOp.result.entry.TotalRequestsOverRetentionPeriod = 0

\* A Get found an idle model (count 0) while the other model was never Put.
C8_Witness ==
    /\ JustGot
    /\ lastOp.result.found
    /\ lastOp.result.entry.TotalRequestsOverRetentionPeriod = 0
    /\ DOMAIN lastPut = {lastOp.modelID}

(***************************************************************************)
(* The Metrics Cache shared by concurrent reconciliation cycles: every     *)
(* call takes the cache lock, does its map operation and releases the      *)
(* lock.  A Put writes its entry in two halves.                            *)
(***************************************************************************)
Cycles == {"r1", "r2"}

\* A lock that is handed out whoever holds it.
TryLockAlways(holder) == TRUE

\* The lock can be taken when nobody holds it.
TryLock(holder) == holder = "free"

\* The lock after its holder released it.
Unlock(holder) == "free"

NoCall == [op |-> "none"]

CycleIndex == [p \in Cycles |-> IF p = "r1" THEN 0 ELSE 1]
ModelIndex == [modelID \in ModelIDs |-> IF modelID = "m" THEN 0 ELSE 1]

\* The number a Put stores in every field names the Put: the n-th call of
\* cycle p, for the model.
PutValue(p, n, modelID) == 1 + ModelIndex[modelID] + 2 * (CycleIndex[p] + 2 * (n - 1))
WriterOf(value) == CHOOSE p \in Cycles : CycleIndex[p] = ((value - 1) \div 2) % 2
ModelOf(value) == CHOOSE modelID \in ModelIDs : ModelIndex[modelID] = (value - 1) % 2

InitLock ==
    /\ CycleIdle /\ CollectIdle /\ CallIdle /\ RetryIdle
    /\ metricsCache = EmptyMap
    /\ lastPut = EmptyMap
    /\ lastOp = NotCalled
    /\ mu = "free"
    /\ cpc = [p \in Cycles |-> "idle"]
    /\ creq = [p \in Cycles |-> NoCall]
    /\ ops = [p \in Cycles |-> 0]

StartPut(p) ==
    /\ cpc[p] = "idle"
    /\ ops[p] < MaxOps
    /\ \E modelID \in ModelIDs :
          creq' = [creq EXCEPT ![p] = [op |-> "Put", modelID |-> modelID,
                                       value |-> PutValue(p, ops[p] + 1, modelID)]]
    /\ ops' = [ops EXCEPT ![p] = @ + 1]
    /\ cpc' = [cpc EXCEPT ![p] = "lock"]
    /\ UNCHANGED <<mu, cycleVars, collectVars, cacheVars>>
    /\ UNCHANGED <<callVars, retryVars>>

StartGet(p) ==
    /\ cpc[p] = "idle"
    /\ ops[p] < MaxOps
    /\ \E modelID \in ModelIDs :
          creq' = [creq EXCEPT ![p] = [op |-> "Get", modelID |-> modelID]]
    /\ ops' = [ops EXCEPT ![p] = @ + 1]
    /\ cpc' = [cpc EXCEPT ![p] = "lock"]
    /\ UNCHANGED <<mu, cycleVars, collectVars, cacheVars>>
    /\ UNCHANGED <<callVars, retryVars>>

Lock(p) ==
    /\ cpc[p] = "lock"
    /\ TryLock(mu)
    /\ mu' = p
    /\ cpc' = [cpc EXCEPT ![p] = IF creq[p].op = "Put" THEN "observation" ELSE "read"]
    /\ UNCHANGED <<creq, ops, cycleVars, collectVars, cacheVars>>
    /\ UNCHANGED <<callVars, retryVars>>

WriteObservation(p) ==
    /\ cpc[p] = "observation"
    /\ metricsCache' = PutObservation(metricsCache, creq[p].modelID,
                                      DecString(creq[p].value), creq[p].value)
    /\ cpc' = [cpc EXCEPT ![p] = "window"]
    /\ UNCHANGED <<lastPut, lastOp, mu, creq, ops, cycleVars, collectVars>>
    /\ UNCHANGED <<callVars, retryVars>>

WriteWindow(p) ==
    /\ cpc[p] = "window"
    /\ metricsCache' = PutWindow(metricsCache, creq[p].modelID, creq[p].value, creq[p].value)
    /\ lastPut' = Store(lastPut, creq[p].modelID, creq[p].value)
    /\ cpc' = [cpc EXCEPT ![p] = "unlock"]
    /\ UNCHANGED <<lastOp, mu, creq, ops, cycleVars, collectVars>>
    /\ UNCHANGED <<callVars, retryVars>>

Read(p) ==
    /\ cpc[p] = "read"
    /\ creq' = [creq EXCEPT ![p] = [op |-> "Got", modelID |-> creq[p].modelID,
                                    result |-> Get(metricsCache, creq[p].modelID)]]
    /\ cpc' = [cpc EXCEPT ![p] = "unlock"]
    /\ UNCHANGED <<mu, ops, cycleVars, collectVars, cacheVars>>
    /\ UNCHANGED <<callVars, retryVars>>

DoUnlock(p) ==
    /\ cpc[p] = "unlock"
    /\ mu' = Unlock(mu)
    /\ cpc' = [cpc EXCEPT ![p] = "idle"]
    /\ UNCHANGED <<creq, ops, cycleVars, collectVars, cacheVars>>
    /\ UNCHANGED <<callVars, retryVars>>

\* The steps of a call once it was made.
Proceed(p) == WriteObservation(p) \/ WriteWindow(p) \/ Read(p) \/ DoUnlock(p)

NextLock ==
    \E p \in Cycles :
        \/ StartPut(p)
        \/ StartGet(p)
        \/ Lock(p)
        \/ WriteObservation(p)
        \/ WriteWindow(p)
        \/ Read(p)
        \/ DoUnlock(p)

SpecLock == InitLock /\ [][NextLock]_vars

\* A call that was made keeps taking its steps; a caller waiting for the lock
\* gets it if it is free again and again.
FairSpecLock ==
    /\ SpecLock
    /\ \A p \in Cycles : WF_vars(Proceed(p)) /\ SF_vars(Lock(p))

\* Every entry a Get returned was written whole by one Put of that model.
GetsWhole ==
    \A p \in Cycles :
        (creq[p].op = "Got" /\ creq[p].result.found) =>
            LET e == creq[p].result.entry
            IN  /\ e.Load = DecString(e.LastUpdated)
                /\ e.RetentionPeriod = e.LastUpdated
                /\ e.TotalRequestsOverRetentionPeriod = e.LastUpdated
                /\ ModelOf(e.LastUpdated) = creq[p].modelID

\* While no Put is between its two halves, each model holds the value of the
\* latest Put of it, and a model never Put has no entry.
HoldsLatestPut ==
    (\A p \in Cycles : cpc[p] # "window") =>
        /\ DOMAIN metricsCache = DOMAIN lastPut
        /\ \A modelID \in DOMAIN lastPut :
              /\ metricsCache[modelID].Load = DecString(lastPut[modelID])
              /\ metricsCache[modelID].LastUpdated = lastPut[modelID]
              /\ metricsCache[modelID].RetentionPeriod = lastPut[modelID]
              /\ metricsCache[modelID].TotalRequestsOverRetentionPeriod = lastPut[modelID]

\* The entry of a model changes only in a step of a Put of that model.
OthersUntouched ==
    \A modelID \in ModelIDs :
        Get(metricsCache', modelID) # Get(metricsCache, modelID) =>
            \E p \in Cycles :
                /\ cpc[p] \in {"observation", "window"}
                /\ creq[p].modelID = modelID
                /\ cpc'[p] # cpc[p]

\* C9: under every interleaving of the cycles' Puts and Gets, a Get returns
\* not-found or a value one Put of that model wrote whole, each model ends up
\* with the value of its latest Put, a Put changes no other model's entry, and
\* every call that was made returns.
C9_SafeUnderConcurrency ==
    /\ [](GetsWhole /\ HoldsLatestPut)
    /\ [][OthersUntouched]_vars
    /\ \A p \in Cycles : (cpc[p] # "idle") ~> (cpc[p] = "idle")

\* A cycle holds the lock with the entry another cycle Put in its hands, while
\* that other cycle waits for the lock.
C9_Witness ==
    \E p, q \in Cycles :
        /\ p # q
        /\ mu = p
        /\ creq[p].op = "Got"
        /\ creq[p].result.found
        /\ WriterOf(creq[p].result.entry.TotalRequestsOverRetentionPeriod) = q
        /\ cpc[q] = "lock"

(***************************************************************************)
(* Metrics collector (internal/collector).                                 *)
(***************************************************************************)
\* A FixValue that forgets the infinities.
FixValueNaNOnly(x) == IF IsNaN(x) THEN Num(0) ELSE x

\* FixValue: NaN and the infinities become 0.
FixValue(x) == IF IsNaN(x) \/ IsInf(x) THEN Num(0) ELSE x

\* float64(v) * 1000, seconds to milliseconds.
ToMsec(x) == IF x.k = "num" THEN Num(1000 * x.v) ELSE x

\* float64(n) * x for a replica count n.
TimesReplicas(n, x) ==
    IF IsNaN(x) THEN NaN
    ELSE IF IsInf(x) THEN (IF n = 0 THEN NaN ELSE x)
    ELSE Num(n * x.v)

\* err == nil && val.Type() == model.ValVector
IsVector(res) == res.err = NoErr /\ res.type = "vector"

\* vec[0].Value of a non-empty vector, else the initial 0.0.
FirstValue(res) == IF Len(res.vec) > 0 THEN res.vec[1] ELSE Num(0)

maxBatch == 256

\* Allocation{}
ZeroAllocation ==
    [Accelerator |-> "", NumReplicas |-> 0, MaxBatch |-> 0, VariantCost |-> "",
     TTFTAverage |-> "", ITLAverage |-> "",
     Load |-> [ArrivalRate |-> "", AvgInputTokens |-> "", AvgOutputTokens |-> ""]]

\* A collector that gives up on a failure of any of the four queries.
AddMetricsToOptStatusStrict(va, dep, costVal, prom) ==
    IF ~IsVector(prom.arrival)
    THEN [alloc |-> ZeroAllocation, err |-> prom.arrival.err]
    ELSE IF ~IsVector(prom.tokens)
    THEN [alloc |-> ZeroAllocation, err |-> prom.tokens.err]
    ELSE IF ~IsVector(prom.ttft)
    THEN [alloc |-> ZeroAllocation, err |-> prom.ttft.err]
    ELSE IF ~IsVector(prom.itl)
    THEN [alloc |-> ZeroAllocation, err |-> prom.itl.err]
    ELSE
    LET arrivalVal == FixValue(FirstValue(prom.arrival))
        avgInputTokens == Num(0)
        avgOutputTokens == FixValue(FirstValue(prom.tokens))
        ttftAverageTime ==
            FixValue(IF IsVector(prom.ttft) /\ Len(prom.ttft.vec) > 0
                     THEN ToMsec(prom.ttft.vec[1]) ELSE Num(0))
        itlAverage ==
            FixValue(IF IsVector(prom.itl) /\ Len(prom.itl.vec) > 0
                     THEN ToMsec(prom.itl.vec[1]) ELSE Num(0))
        numReplicas == dep.Spec.Replicas
        acc == MapGet(va.Labels, "inference.optimization/acceleratorName")
        discoveredCost == TimesReplicas(dep.Spec.Replicas, costVal)
    IN  [alloc |-> [Accelerator |-> acc,
                    NumReplicas |-> numReplicas,
                    MaxBatch |-> maxBatch,
                    VariantCost |-> FormatFloat(discoveredCost),
                    TTFTAverage |-> FormatFloat(ttftAverageTime),
                    ITLAverage |-> FormatFloat(itlAverage),
                    Load |-> [ArrivalRate |-> FormatFloat(arrivalVal),
                              AvgInputTokens |-> FormatFloat(avgInputTokens),
                              AvgOutputTokens |-> FormatFloat(avgOutputTokens)]],
         err |-> NoErr]

\* AddMetricsToOptStatus: prom maps each of the four queries (arrival rate,
\* average output tokens, waiting time, inter-token latency) to the answer of
\* promAPI.Query.
AddMetricsToOptStatus(va, dep, costVal, prom) ==
    IF ~IsVector(prom.arrival)
    THEN [alloc |-> ZeroAllocation, err |-> prom.arrival.err]
    ELSE IF ~IsVector(prom.tokens)
    THEN [alloc |-> ZeroAllocation, err |-> prom.tokens.err]
    ELSE
    LET arrivalVal == FixValue(FirstValue(prom.arrival))
        avgInputTokens == Num(0)
        avgOutputTokens == FixValue(FirstValue(prom.tokens))
        ttftAverageTime ==
            FixValue(IF IsVector(prom.ttft) /\ Len(prom.ttft.vec) > 0
                     THEN ToMsec(prom.ttft.vec[1]) ELSE Num(0))
        itlAverage ==
            FixValue(IF IsVector(prom.itl) /\ Len(prom.itl.vec) > 0
                     THEN ToMsec(prom.itl.vec[1]) ELSE Num(0))
        numReplicas == dep.Spec.Replicas
        acc == MapGet(va.Labels, "inference.optimization/acceleratorName")
        discoveredCost == TimesReplicas(dep.Spec.Replicas, costVal)
    IN  [alloc |-> [Accelerator |-> acc,
                    NumReplicas |-> numReplicas,
                    MaxBatch |-> maxBatch,
                    VariantCost |-> FormatFloat(discoveredCost),
                    TTFTAverage |-> FormatFloat(ttftAverageTime),
                    ITLAverage |-> FormatFloat(itlAverage),
                    Load |-> [ArrivalRate |-> FormatFloat(arrivalVal),
                              AvgInputTokens |-> FormatFloat(avgInputTokens),
                              AvgOutputTokens |-> FormatFloat(avgOutputTokens)]],
         err |-> NoErr]

(***************************************************************************)
(* One collection: the backend answers, the collector builds the           *)
(* allocation.                                                             *)
(***************************************************************************)
SampleValues == {Num(500), Num(-1530), NaN, PosInf, NegInf}

EmptyVector == [err |-> NoErr, type |-> "vector", vec |-> <<>>]

\* The answers of the backend: a failure, a value that is no vector, an empty
\* vector, a vector of one sample.
QueryAnswers ==
    {[err |-> "prometheus connection failed", type |-> "none", vec |-> <<>>],
     [err |-> NoErr, type |-> "scalar", vec |-> <<>>],
     EmptyVector}
    \cup {[err |-> NoErr, type |-> "vector", vec |-> <<x>>] : x \in SampleValues}

CollectedModelID == "m"

InitCollect ==
    /\ CycleIdle /\ CacheIdle /\ LockIdle /\ CallIdle /\ RetryIdle
    /\ promAPI \in [arrival : QueryAnswers, tokens : QueryAnswers,
                    ttft : QueryAnswers, itl : QueryAnswers]
    /\ deployment \in {[Name |-> "a", Namespace |-> "ns1", Spec |-> [Replicas |-> r]] :
                          r \in {0, 2}}
    /\ optLabels \in {EmptyMap,
                      [l \in {"inference.optimization/acceleratorName"} |-> "A100"]}
    /\ acceleratorCostVal = Num(250)
    /\ collected = NotCalled

Collect ==
    /\ ~collected.called
    /\ LET va == [Spec |-> [ModelID |-> CollectedModelID], Labels |-> optLabels]
           r == AddMetricsToOptStatus(va, deployment, acceleratorCostVal, promAPI)
       IN  collected' = [called |-> TRUE, alloc |-> r.alloc, err |-> r.err]
    /\ UNCHANGED <<promAPI, deployment, optLabels, acceleratorCostVal>>
    /\ UNCHANGED <<cycleVars, cacheVars, lockVars>>
    /\ UNCHANGED <<callVars, retryVars>>

NextCollect == Collect

SpecCollect == InitCollect /\ [][NextCollect]_vars

AllEmptyVectors == \A q \in DOMAIN promAPI : promAPI[q] = EmptyVector

\* C10: when the backend answers the queries with empty vectors, the collection
\* succeeds, the load fields and the ITL and TTFT averages of the allocation
\* read "0.00", and the Metrics Cache then holds an entry for the model, with
\* zero total requests.
C10_EmptyVectorsAreCachedAsIdle ==
    (collected.called /\ AllEmptyVectors) =>
        /\ collected.err = NoErr
        /\ collected.alloc.Load.ArrivalRate = "0.00"
        /\ collected.alloc.Load.AvgInputTokens = "0.00"
        /\ collected.alloc.Load.AvgOutputTokens = "0.00"
        /\ collected.alloc.ITLAverage = "0.00"
        /\ collected.alloc.TTFTAverage = "0.00"
        /\ Get(metricsCache, CollectedModelID).found
        /\ Get(metricsCache, CollectedModelID).entry.TotalRequestsOverRetentionPeriod = 0

\* The part of C10 about the returned allocation alone.
C10_EmptyVectorsReadZero ==
    (collected.called /\ AllEmptyVectors) =>
        /\ collected.err = NoErr
        /\ collected.alloc.Load.ArrivalRate = "0.00"
        /\ collected.alloc.Load.AvgInputTokens = "0.00"
        /\ collected.alloc.Load.AvgOutputTokens = "0.00"
        /\ collected.alloc.ITLAverage = "0.00"
        /\ collected.alloc.TTFTAverage = "0.00"

Failed(res) == res.err # NoErr

\* C11: a failure of the arrival-rate query is returned as the error of the
\* call, together with the empty Allocation; a failure of the waiting-time or
\* of the ITL query does not fail the call, the average it feeds reads 0.
C11_ArrivalFailureFailsLatencyFailureDoesNot ==
    collected.called =>
        /\ Failed(promAPI.arrival) =>
              /\ collected.err = promAPI.arrival.err
              /\ collected.alloc = ZeroAllocation
        /\ (IsVector(promAPI.arrival) /\ IsVector(promAPI.tokens)) =>
              /\ collected.err = NoErr
              /\ Failed(promAPI.ttft) => collected.alloc.TTFTAverage = "0.00"
              /\ Failed(promAPI.itl) => collected.alloc.ITLAverage = "0.00"

\* A collection that succeeded although the waiting-time and the ITL query
\* failed, with the load the two other queries returned.
C11_Witness ==
    /\ collected.called
    /\ Failed(promAPI.ttft) /\ Failed(promAPI.itl)
    /\ collected.err = NoErr
    /\ collected.alloc.Load.ArrivalRate = "5.00"
    /\ collected.alloc.TTFTAverage = "0.00"

\* ^\d+(\.\d+)?$
IsUnsignedDecimal(str) ==
    LET dots == {i \in 1..Len(str) : Char(str, i) = "."}
    IN  IF dots = {} THEN Len(str) >= 1 /\ AllDigits(str)
        ELSE LET p == CHOOSE i \in dots : \A j \in dots : i <= j
             IN  /\ p > 1 /\ p < Len(str)
                 /\ AllDigits(SubSeq(str, 1, p - 1))
                 /\ AllDigits(SubSeq(str, p + 1, Len(str)))

NumericFields(alloc) ==
    {alloc.VariantCost, alloc.TTFTAverage, alloc.ITLAverage, alloc.Load.ArrivalRate,
     alloc.Load.AvgInputTokens, alloc.Load.AvgOutputTokens}

\* C12: every numeric string field of the Allocation a successful collection
\* returns is an unsigned decimal, whatever values the backend returned.
C12_NumericFieldsAreUnsignedDecimals ==
    (collected.called /\ collected.err = NoErr) =>
        \A str \in NumericFields(collected.alloc) : IsUnsignedDecimal(str)

\* The part of C12 about NaN and the infinities: no field encodes one.
C12_NoFieldEncodesNaNOrInf ==
    (collected.called /\ IsVector(promAPI.arrival) /\ IsVector(promAPI.tokens)) =>
        \A str \in NumericFields(collected.alloc) :
            ~ParseFloat(str).err /\ CheckValue(ParseFloat(str).f)

(***************************************************************************)
(* One variant with arbitrary status strings, taken through the builder.   *)
(***************************************************************************)
StatusStrings == {"2.75", "-3.50", "NaN", "-Inf", "abc"}
AllocStrings == {"2.75", "NaN", "+Inf", ""}

\* The number each of these strings denotes, in hundredths, where it denotes
\* a finite one.
Denoted ==
    [str \in StatusStrings \cup AllocStrings |->
        IF str = "2.75" THEN 275 ELSE IF str = "-3.50" THEN -350 ELSE 0]

\* The same cut to whole tokens.
DenotedTokens ==
    [str \in StatusStrings |->
        IF str = "2.75" THEN 2 ELSE IF str = "-3.50" THEN -3 ELSE 0]

StatusVariant(arrival, inTokens, outTokens, cost, itl, ttft) ==
    [Name |-> "a", Namespace |-> "ns1",
     Spec |-> [ModelID |-> "m", VariantID |-> "m-A100-1",
               Accelerator |-> "A100", AcceleratorCount |-> 1,
               VariantProfile |-> ProfileA],
     Status |-> [Load |-> [ArrivalRate |-> arrival, AvgInputTokens |-> inTokens,
                           AvgOutputTokens |-> outTokens],
                 ITLAverage |-> itl, TTFTAverage |-> ttft,
                 CurrentAllocs |-> <<[CurrentAllocOn("A100") EXCEPT !.VariantCost = cost]>>]]

InitServer ==
    /\ CollectIdle /\ CacheIdle /\ LockIdle /\ CallIdle /\ RetryIdle
    /\ acceleratorCm = DefaultAcceleratorCm
    /\ serviceClassCm = DefaultServiceClassCm
    /\ wvaScaleToZero = "false"
    /\ \E arrival, inTokens, outTokens \in StatusStrings, cost, itl, ttft \in AllocStrings :
          vaList = <<StatusVariant(arrival, inTokens, outTokens, cost, itl, ttft)>>
    /\ sd = <<>>
    /\ pc = "create"
    /\ idx = 1
    /\ opt = NotCalled

NextServer ==
    \/ DoCreateSystemData
    \/ DoAddVariantProfile
    \/ DoAddServerInfo

SpecServer == InitServer /\ [][NextServer]_vars

ServerAdded == pc = "optimize"

Finite(x) == x.k = "num"

\* C13: whatever the six status strings are, the call does not fail; the server
\* entry holds the value of each string that parses to a finite number (token
\* averages cut to integers) and 0 for each that does not parse or is NaN or
\* infinite; no server entry holds a NaN or an infinity.
C13_StatusSanitizedOnEntry ==
    /\ ServerAdded =>
          /\ Len(sd.Servers) = 1
          /\ LET status == vaList[1].Status
                 alloc == sd.Servers[1].CurrentAlloc
             IN  /\ alloc.Load.ArrivalRate = Num(Denoted[status.Load.ArrivalRate])
                 /\ alloc.Load.AvgInTokens = DenotedTokens[status.Load.AvgInputTokens]
                 /\ alloc.Load.AvgOutTokens = DenotedTokens[status.Load.AvgOutputTokens]
                 /\ alloc.Cost = Num(Denoted[status.CurrentAllocs[1].VariantCost])
                 /\ alloc.ITLAverage = Num(Denoted[status.ITLAverage])
                 /\ alloc.TTFTAverage = Num(Denoted[status.TTFTAverage])
    /\ pc # "create" =>
          \A i \in 1..Len(sd.Servers) :
              /\ Finite(sd.Servers[i].CurrentAlloc.Load.ArrivalRate)
              /\ Finite(sd.Servers[i].CurrentAlloc.Cost)
              /\ Finite(sd.Servers[i].CurrentAlloc.ITLAverage)
              /\ Finite(sd.Servers[i].CurrentAlloc.TTFTAverage)

\* A server entry built from a NaN arrival rate, an infinite output token
\* average, an unparseable cost and a finite input token average.
C13_Witness ==
    /\ ServerAdded
    /\ Len(sd.Servers) = 1
    /\ vaList[1].Status.Load.ArrivalRate = "NaN"
    /\ vaList[1].Status.Load.AvgOutputTokens = "-Inf"
    /\ vaList[1].Status.Load.AvgInputTokens = "2.75"
    /\ vaList[1].Status.CurrentAllocs[1].VariantCost = ""
    /\ sd.Servers[1].CurrentAlloc.Load.ArrivalRate = Num(0)
    /\ sd.Servers[1].CurrentAlloc.Load.AvgInTokens = 2

\* C14: the load of every server entry has a non-negative arrival rate and
\* non-negative average input and output token counts.
C14_LoadIsNonNegative ==
    pc # "create" =>
        \A i \in 1..Len(sd.Servers) :
            /\ sd.Servers[i].CurrentAlloc.Load.ArrivalRate.v >= 0
            /\ sd.Servers[i].CurrentAlloc.Load.AvgInTokens >= 0
            /\ sd.Servers[i].CurrentAlloc.Load.AvgOutTokens >= 0

(***************************************************************************)
(* One variant with an arbitrary performance profile, taken through the    *)
(* profile step of the builder.                                            *)
(***************************************************************************)
\* The coefficient each parseable string denotes.
DenotedParm == [str \in {"1.50", "NaN"} |-> IF str = "1.50" THEN Num(150) ELSE NaN]

ProfiledVariant(decodeParms, prefillParms) ==
    [Name |-> "a", Namespace |-> "ns1",
     Spec |-> [ModelID |-> "m", VariantID |-> "m-A100-1",
               Accelerator |-> "A100", AcceleratorCount |-> 1,
               VariantProfile |->
                   [PerfParms |-> [DecodeParms |-> decodeParms,
                                   PrefillParms |-> prefillParms],
                    MaxBatchSize |-> 4]],
     Status |-> [Load |-> [ArrivalRate |-> "1.00", AvgInputTokens |-> "1.00",
                           AvgOutputTokens |-> "1.00"],
                 ITLAverage |-> "0.00", TTFTAverage |-> "0.00",
                 CurrentAllocs |-> <<CurrentAllocOn("A100")>>]]

InitProfile ==
    /\ CollectIdle /\ CacheIdle /\ LockIdle /\ CallIdle /\ RetryIdle
    /\ acceleratorCm = DefaultAcceleratorCm
    /\ serviceClassCm = DefaultServiceClassCm
    /\ wvaScaleToZero = "false"
    /\ \E decodeKeys \in SUBSET {"alpha", "beta", "x"},
          prefillKeys \in SUBSET {"gamma", "delta", "x"} :
          \E decodeParms \in [decodeKeys -> {"1.50", "NaN", "abc"}],
             prefillParms \in [prefillKeys -> {"1.50", "NaN", "abc"}] :
             vaList = <<ProfiledVariant(decodeParms, prefillParms)>>
    /\ sd = <<>>
    /\ pc = "create"
    /\ idx = 1
    /\ opt = NotCalled

NextProfile ==
    \/ DoCreateSystemData
    \/ DoAddVariantProfile

SpecProfile == InitProfile /\ [][NextProfile]_vars

\* The map has a parseable value under each of the two keys.
HasBoth(parms, k1, k2) ==
    /\ {k1, k2} \subseteq DOMAIN parms
    /\ parms[k1] \in DOMAIN DenotedParm
    /\ parms[k2] \in DOMAIN DenotedParm

\* The profile step is over: the variant was skipped ("optimize") or goes on
\* to its server entry ("server").
ProfileStepDone == pc \in {"server", "optimize"}

\* C15: the profile step fails whenever alpha or beta is missing or does not
\* parse in the decode parameters or gamma or delta in the prefill parameters,
\* and then no performance entry is appended; otherwise exactly one entry with
\* the four coefficients and the max batch size is appended.
C15_ProfileFailsFast ==
    ProfileStepDone =>
        LET profile == vaList[1].Spec.VariantProfile
            decodeParms == profile.PerfParms.DecodeParms
            prefillParms == profile.PerfParms.PrefillParms
        IN  IF HasBoth(decodeParms, "alpha", "beta") /\ HasBoth(prefillParms, "gamma", "delta")
            THEN /\ pc = "server"
                 /\ sd.PerfData =
                       <<[Name |-> "m", Acc |-> "A100", AccCount |-> 1,
                          MaxBatchSize |-> profile.MaxBatchSize,
                          Alpha |-> DenotedParm[decodeParms["alpha"]],
                          Beta |-> DenotedParm[decodeParms["beta"]],
                          Gamma |-> DenotedParm[prefillParms["gamma"]],
                          Delta |-> DenotedParm[prefillParms["delta"]]]>>
            ELSE /\ pc = "optimize"
                 /\ sd.PerfData = <<>>

\* A profile with two decode entries of which one is not beta, and one with an
\* unparseable delta, were rejected; a complete one was accepted.
C15_Witness ==
    /\ ProfileStepDone
    /\ LET decodeParms == vaList[1].Spec.VariantProfile.PerfParms.DecodeParms
           prefillParms == vaList[1].Spec.VariantProfile.PerfParms.PrefillParms
       IN  /\ DOMAIN decodeParms = {"alpha", "beta", "x"}
           /\ decodeParms["alpha"] = "1.50" /\ decodeParms["beta"] = "1.50"
           /\ DOMAIN prefillParms = {"gamma", "delta"}
           /\ prefillParms["gamma"] = "1.50" /\ prefillParms["delta"] = "abc"
           /\ sd.PerfData = <<>>

(***************************************************************************)
(* CreateSystemData over arbitrary configuration maps.                     *)
(***************************************************************************)
ConfiguredAccelerators == {"A100", "L40", "MI300"}

\* An accelerator entry: a device and a cost string, or a device only.
AcceleratorEntries(a) ==
    {[device |-> a, cost |-> c] : c \in {"2.00", "NaN", "abc"}} \cup {[device |-> a]}

AcceleratorCms ==
    UNION {{cm \in [K -> UNION {AcceleratorEntries(a) : a \in K}] :
               \A a \in K : cm[a] \in AcceleratorEntries(a)} :
           K \in SUBSET ConfiguredAccelerators}

\* The cost each parseable cost string denotes.
DenotedCost == [str \in {"2.00", "NaN"} |-> IF str = "2.00" THEN Num(200) ELSE NaN]

ServiceClassKeys == {"premium", "free"}

\* A service class value: a document that parses to the class of its key, or
\* a malformed document.
ServiceClassValues(k) ==
    {[ok |-> ok,
      sc |-> [Name |-> k, Priority |-> IF k = "premium" THEN 1 ELSE 10,
              Data |-> <<[Model |-> "m", SLOTPOT |-> 200, SLOTTFT |-> 200]>>]] :
     ok \in BOOLEAN}

ServiceClassCms ==
    UNION {{cm \in [K -> UNION {ServiceClassValues(k) : k \in K}] :
               \A k \in K : cm[k] \in ServiceClassValues(k)} :
           K \in SUBSET ServiceClassKeys}

InitConfig ==
    /\ CollectIdle /\ CacheIdle /\ LockIdle /\ CallIdle /\ RetryIdle
    /\ acceleratorCm \in AcceleratorCms
    /\ serviceClassCm \in ServiceClassCms
    /\ wvaScaleToZero = "false"
    /\ vaList = <<>>
    /\ sd = <<>>
    /\ pc = "create"
    /\ idx = 1
    /\ opt = NotCalled

NextConfig == DoCreateSystemData

SpecConfig == InitConfig /\ [][NextConfig]_vars

SystemDataCreated == pc # "create"

CostParses(a) ==
    /\ "cost" \in DOMAIN acceleratorCm[a]
    /\ acceleratorCm[a].cost \in DOMAIN DenotedCost

\* C16: CreateSystemData always returns a model; it holds exactly one
\* AcceleratorSpec of multiplicity 1 for each accelerator whose cost parses and
\* none for the others, exactly one ServiceClass for each value that parses,
\* and it is in unlimited mode with empty capacity, performance data and
\* servers.
C16_CreateSystemDataNeverFails ==
    SystemDataCreated =>
        /\ \A a \in DOMAIN acceleratorCm :
              LET specs == {i \in 1..Len(sd.Accelerators) : sd.Accelerators[i].Name = a}
              IN  IF CostParses(a)
                  THEN /\ Cardinality(specs) = 1
                       /\ \A i \in specs :
                             /\ sd.Accelerators[i].Multiplicity = 1
                             /\ sd.Accelerators[i].Type = acceleratorCm[a].device
                             /\ sd.Accelerators[i].Cost = DenotedCost[acceleratorCm[a].cost]
                  ELSE specs = {}
        /\ \A i \in 1..Len(sd.Accelerators) : sd.Accelerators[i].Name \in DOMAIN acceleratorCm
        /\ \A k \in DOMAIN serviceClassCm :
              LET classes == {i \in 1..Len(sd.ServiceClasses) : sd.ServiceClasses[i].Name = k}
              IN  IF serviceClassCm[k].ok
                  THEN /\ Cardinality(classes) = 1
                       /\ \A i \in classes :
                             /\ sd.ServiceClasses[i].Priority = serviceClassCm[k].sc.Priority
                             /\ Len(sd.ServiceClasses[i].ModelTargets) = 1
                  ELSE classes = {}
        /\ \A i \in 1..Len(sd.ServiceClasses) : sd.ServiceClasses[i].Name \in DOMAIN serviceClassCm
        /\ sd.Unlimited = TRUE
        /\ sd.Capacity = <<>>
        /\ sd.PerfData = <<>>
        /\ sd.Servers = <<>>

\* A configuration with a good, an unparseable and a missing cost and with a
\* good and a malformed service class was turned into a model with one
\* accelerator and one service class.
C16_Witness ==
    /\ SystemDataCreated
    /\ DOMAIN acceleratorCm = ConfiguredAccelerators
    /\ acceleratorCm["A100"] = [device |-> "A100", cost |-> "2.00"]
    /\ acceleratorCm["L40"] = [device |-> "L40", cost |-> "abc"]
    /\ acceleratorCm["MI300"] = [device |-> "MI300"]
    /\ DOMAIN serviceClassCm = ServiceClassKeys
    /\ serviceClassCm["premium"].ok /\ ~serviceClassCm["free"].ok
    /\ Len(sd.Accelerators) = 1
    /\ Len(sd.ServiceClasses) = 1

(***************************************************************************)
(* The server entry of a variant that has a scale-to-zero setting of its   *)
(* own, under every value of the global switch.                            *)
(***************************************************************************)
\* The values of the global switch that enable scale-to-zero.
GlobalSwitchOn == {"true", "TRUE", "True"}

SettingVariant(enableScaleToZero, arrival) ==
    [Name |-> "a", Namespace |-> "ns1",
     Labels |-> [l \in {"inference.optimization/acceleratorName"} |-> "A100"],
     Spec |-> [ModelID |-> "m", EnableScaleToZero |-> enableScaleToZero,
               ModelProfile |->
                   [Accelerators |->
                       <<[Acc |-> "A100", AccCount |-> 1,
                          PerfParms |-> ProfileA.PerfParms,
                          MaxBatchSize |-> ProfileA.MaxBatchSize]>>]],
     Status |-> [CurrentAlloc |->
                   [Accelerator |-> "A100", NumReplicas |-> 1, MaxBatch |-> 4,
                    VariantCost |-> "2.00", ITLAverage |-> "0.00",
                    TTFTAverage |-> "0.00",
                    Load |-> [ArrivalRate |-> arrival, AvgInputTokens |-> "1.00",
                              AvgOutputTokens |-> "1.00"]]]]

InitFloor ==
    /\ CollectIdle /\ CacheIdle /\ LockIdle /\ CallIdle /\ RetryIdle
    /\ acceleratorCm = DefaultAcceleratorCm
    /\ serviceClassCm = DefaultServiceClassCm
    /\ wvaScaleToZero \in {"true", "TRUE", "True", "false", "1", ""}
    /\ \E enableScaleToZero \in {"unset", "true", "false"}, arrival \in StatusStrings :
          vaList = <<SettingVariant(enableScaleToZero, arrival)>>
    /\ sd = <<>>
    /\ pc = "create"
    /\ idx = 1
    /\ opt = NotCalled

\* The profiles of the variant are added one by one; the first one that is
\* rejected ends the loop.
RECURSIVE AddModelAcceleratorProfiles(_, _, _)
AddModelAcceleratorProfiles(s, modelName, accelerators) ==
    IF Len(accelerators) = 0 THEN [sd |-> s, err |-> NoErr]
    ELSE LET r == AddModelAcceleratorProfileToSystemData(s, modelName, Head(accelerators))
         IN  IF r.err # NoErr THEN r
             ELSE AddModelAcceleratorProfiles(r.sd, modelName, Tail(accelerators))

DoAddModelAcceleratorProfiles ==
    /\ pc = "profile"
    /\ LET va == vaList[idx]
           r == AddModelAcceleratorProfiles(sd, va.Spec.ModelID,
                                            va.Spec.ModelProfile.Accelerators)
       IN  /\ sd' = r.sd
           /\ IF r.err = NoErr THEN pc' = "server" /\ idx' = idx ELSE Advance
    /\ UNCHANGED <<acceleratorCm, serviceClassCm, wvaScaleToZero, vaList, opt>>
    /\ UNCHANGED <<collectVars, cacheVars, lockVars>>
    /\ UNCHANGED <<callVars, retryVars>>

DoAddServerInfoCurrentAlloc ==
    /\ pc = "server"
    /\ \E order \in Orders(DOMAIN serviceClassCm) :
          LET va == vaList[idx]
              slo == FindModelSLO(serviceClassCm, va.Spec.ModelID, order)
          IN  sd' = IF slo.err = NoErr
                    THEN AddServerInfoToSystemDataCurrentAlloc(sd, va, slo.class,
                                                               wvaScaleToZero).sd
                    ELSE sd
    /\ Advance
    /\ UNCHANGED <<acceleratorCm, serviceClassCm, wvaScaleToZero, vaList, opt>>
    /\ UNCHANGED <<collectVars, cacheVars, lockVars>>
    /\ UNCHANGED <<callVars, retryVars>>

NextFloor ==
    \/ DoCreateSystemData
    \/ DoAddModelAcceleratorProfiles
    \/ DoAddServerInfoCurrentAlloc

SpecFloor == InitFloor /\ [][NextFloor]_vars

RECURSIVE VariantIDs(_)
VariantIDs(n) ==
    IF n = 0 THEN {""}
    ELSE VariantIDs(n - 1)
            \cup {s \o c : s \in VariantIDs(n - 1),
                           c \in {"a", "B", "1", "-", "/", ".", "_", "@"}}

InitCall ==
    /\ CycleIdle /\ CollectIdle /\ CacheIdle /\ LockIdle /\ RetryIdle
    /\ arg \in {[fn |-> "FixValue", x |-> x] :
                   x \in {NaN, PosInf, NegInf, Num(4250), Num(-1530)}
                           \cup {Num(h) : h \in -MaxHundredths..MaxHundredths}}
           \cup {[fn |-> "SuggestResourceNameFromVariantID", variantID |-> s] :
                   s \in VariantIDs(MaxLen)}
    /\ ret = NotCalled

\* FixValue(&x), on the argument or on the value the last call left in x.
DoFixValue ==
    /\ arg.fn = "FixValue"
    /\ IF ret.called
       THEN /\ ret.n < MaxOps
            /\ ret' = [called |-> TRUE, n |-> ret.n + 1, value |-> FixValue(ret.value)]
       ELSE ret' = [called |-> TRUE, n |-> 1, value |-> FixValue(arg.x)]
    /\ UNCHANGED <<arg, cycleVars, collectVars, cacheVars, lockVars, retryVars>>

\* SuggestResourceNameFromVariantID, on the argument or on the last result.
DoSuggestResourceName ==
    /\ arg.fn = "SuggestResourceNameFromVariantID"
    /\ IF ret.called
       THEN /\ ret.n < MaxOps
            /\ ret' = [called |-> TRUE, n |-> ret.n + 1,
                       value |-> SuggestResourceNameFromVariantID(ret.value)]
       ELSE ret' = [called |-> TRUE, n |-> 1,
                    value |-> SuggestResourceNameFromVariantID(arg.variantID)]
    /\ UNCHANGED <<arg, cycleVars, collectVars, cacheVars, lockVars, retryVars>>

NextCall ==
    \/ DoFixValue
    \/ DoSuggestResourceName

SpecCall == InitCall /\ [][NextCall]_vars

\* C18: FixValue turns NaN, +Inf and -Inf into 0 and leaves every other value
\* as it is; a second application changes nothing.
C18_FixValueZeroesNonFiniteOnly ==
    (arg.fn = "FixValue" /\ ret.called) =>
        ret.value = (IF arg.x.k \in {"nan", "inf"} THEN Num(0) ELSE arg.x)

\* FixValue was applied twice to -Inf.
C18_Witness ==
    /\ arg.fn = "FixValue"
    /\ ret.called
    /\ ret.n = 2
    /\ arg.x = NegInf
    /\ ret.value = Num(0)

\* A character a DNS-1123 name may contain.
IsNameChar(c) ==
    c \in {"a", "b", "c", "d", "e", "f", "g", "h", "i", "j", "k", "l", "m",
           "n", "o", "p", "q", "r", "s", "t", "u", "v", "w", "x", "y", "z",
           "0", "1", "2", "3", "4", "5", "6", "7", "8", "9", "-"}

IsEmptyOrDNS1123(s) ==
    \/ s = ""
    \/ /\ \A i \in 1..Len(s) : IsNameChar(Char(s, i))
       /\ Char(s, 1) # "-"
       /\ Char(s, Len(s)) # "-"

\* C19: SuggestResourceNameFromVariantID returns the empty string or a string
\* of lower-case letters, digits and hyphens that neither starts nor ends with
\* a hyphen, and applied to its own output it returns that output.
C19_SuggestedNameIsDNS1123 ==
    /\ [](arg.fn = "SuggestResourceNameFromVariantID" /\ ret.called
            => IsEmptyOrDNS1123(ret.value))
    /\ [][arg.fn = "SuggestResourceNameFromVariantID" /\ ret.called
            => ret'.value = ret.value]_vars

\* "-B/" became "b", and the second application returned "b" again.
C19_Witness ==
    /\ arg.fn = "SuggestResourceNameFromVariantID"
    /\ arg.variantID = "-B/"
    /\ ret.called
    /\ ret.n = 2
    /\ ret.value = "b"

(***************************************************************************)
(* A call of one of the backoff wrappers: GetResourceWithBackoff through   *)
(* one of its three helpers, UpdateStatusWithBackoff, or                   *)
(* ValidatePrometheusAPI.  The loop is wait.ExponentialBackoffWithContext: *)
(* while steps remain it returns the context's error if the context is     *)
(* done, runs the condition and returns if that is done or failed, and     *)
(* otherwise waits, unless this was the last step, for the timer or the    *)
(* context; out of steps it returns the timeout error.                     *)
(***************************************************************************)
ErrWaitTimeout == "timed out waiting for the condition"
ErrCanceled == "context canceled"

InitRetry ==
    /\ CycleIdle /\ CollectIdle /\ CacheIdle /\ LockIdle /\ CallIdle
    /\ \E resourceType \in {"Deployment", "ConfigMap", "VariantAutoscaling"} :
          retry = [called |-> TRUE, op |-> "Get", resourceType |-> resourceType,
                   pc |-> "running", limit |-> StandardBackoffSteps,
                   steps |-> StandardBackoffSteps, attempts |-> 0,
                   last |-> "none", err |-> NoErr]
    /\ ctxDone = FALSE

\* A call of any of the wrappers: a Get with the standard backoff, a status
\* update of a VariantAutoscaling with the standard or the reconcile backoff,
\* or the validation of the Prometheus API with the Prometheus backoff.
InitBackoff ==
    /\ CycleIdle /\ CollectIdle /\ CacheIdle /\ LockIdle /\ CallIdle
    /\ \E call \in ({"Get"} \X {"Deployment", "ConfigMap", "VariantAutoscaling"}
                       \X {StandardBackoffSteps})
                  \cup ({"UpdateStatus"} \X {"VariantAutoscaling"}
                           \X {StandardBackoffSteps, ReconcileBackoffSteps})
                  \cup ({"ValidatePrometheus"} \X {"Prometheus"}
                           \X {PrometheusBackoffSteps}) :
          retry = [called |-> TRUE, op |-> call[1], resourceType |-> call[2],
                   pc |-> "running", limit |-> call[3], steps |-> call[3],
                   attempts |-> 0, last |-> "none", err |-> NoErr]
    /\ ctxDone = FALSE

\* One turn of the loop: the context check, the wrapper's request (a Get, a
\* status update or a query) and what follows from its outcome.
Attempt ==
    /\ retry.called
    /\ retry.pc = "running"
    /\ IF ctxDone
       THEN retry' = [retry EXCEPT !.pc = "returned", !.err = ErrCanceled]
       ELSE \E getErr \in {NoErr, "NotFound", "Forbidden", "ServerTimeout",
                            "Invalid", "Conflict"} :
               LET r == IF retry.op = "Get" THEN GetResourceCondition(getErr)
                        ELSE IF retry.op = "UpdateStatus"
                        THEN UpdateStatusCondition(getErr)
                        ELSE ValidatePrometheusCondition(getErr)
                   got == [retry EXCEPT !.attempts = @ + 1, !.last = getErr]
               IN  retry' = IF r.err # NoErr \/ r.done
                            THEN [got EXCEPT !.pc = "returned", !.err = r.err]
                            ELSE IF retry.steps = 1
                            THEN [got EXCEPT !.pc = "returned", !.err = ErrWaitTimeout]
                            ELSE [got EXCEPT !.pc = "waiting", !.steps = @ - 1]
    /\ UNCHANGED <<ctxDone, cycleVars, collectVars, cacheVars, lockVars, callVars>>

\* The wait between two attempts ends with the timer or, if the context is
\* done, with the context's error.
Wait ==
    /\ retry.called
    /\ retry.pc = "waiting"
    /\ \/ retry' = [retry EXCEPT !.pc = "running"]
       \/ /\ ctxDone
          /\ retry' = [retry EXCEPT !.pc = "returned", !.err = ErrCanceled]
    /\ UNCHANGED <<ctxDone, cycleVars, collectVars, cacheVars, lockVars, callVars>>

\* The caller's context is cancelled while the call is under way.
Cancel ==
    /\ retry.called
    /\ retry.pc # "returned"
    /\ ~ctxDone
    /\ ctxDone' = TRUE
    /\ UNCHANGED <<retry, cycleVars, collectVars, cacheVars, lockVars, callVars>>

NextRetry ==
    \/ Attempt
    \/ Wait
    \/ Cancel

\* The goroutine of the call keeps running and its timer fires.
FairSpecRetry ==
    InitRetry /\ [][NextRetry]_vars /\ WF_vars(Attempt) /\ WF_vars(Wait)

Returned == retry.called /\ retry.pc = "returned"

\* The last Get failed with an error other than not-found.
LastTransient ==
    /\ retry.called
    /\ retry.op = "Get"
    /\ retry.last \in {"Forbidden", "ServerTimeout", "Invalid", "Conflict"}

\* C20 as stated: a not-found error ends the loop and is returned, the first
\* successful Get ends it with no error, and any other error is followed by
\* another attempt, so that a call whose context is not cancelled never
\* returns after such an error.
C20_EveryOtherErrorIsRetried ==
    /\ (Returned /\ retry.last = "NotFound") => retry.err = "NotFound"
    /\ (Returned /\ retry.last = NoErr) => retry.err = NoErr
    /\ ~(Returned /\ LastTransient /\ ~ctxDone)

\* C20, amended: a not-found error ends the loop at once and is returned with
\* no further Get, the first successful Get ends it with no error, and any
\* other error is followed by another attempt as long as the backoff has steps
\* left and the context is not done; after the last step the call returns the
\* timeout error and after a cancellation the context's error, with no further
\* Get in either case.
C20_RetriesWhileStepsRemain ==
    /\ [](retry.last \in {"NotFound", NoErr} =>
            /\ Returned
            /\ retry.err = retry.last)
    /\ [](Returned /\ LastTransient =>
            \/ retry.attempts = StandardBackoffSteps /\ retry.err = ErrWaitTimeout
            \/ ctxDone /\ retry.err = ErrCanceled)
    /\ [][Returned => retry'.attempts = retry.attempts]_vars
    /\ [][retry'.attempts \in {retry.attempts, retry.attempts + 1}]_vars
    /\ \A k \in 1..(StandardBackoffSteps - 1) :
          (LastTransient /\ retry.attempts = k)
              ~> (retry.attempts = k + 1 \/ ctxDone)

\* The fifth Get in a row failed with a transient error and the call returned
\* the timeout error.
C20_Witness ==
    /\ Returned
    /\ retry.attempts = StandardBackoffSteps
    /\ retry.last = "ServerTimeout"
    /\ retry.err = ErrWaitTimeout
    /\ ~ctxDone

\* The wrappers under fair scheduling, for any of the calls.
FairSpecBackoff ==
    InitBackoff /\ [][NextRetry]_vars /\ WF_vars(Attempt) /\ WF_vars(Wait)

Updating == retry.called /\ retry.op = "UpdateStatus"

\* The last status update failed with an error that is neither invalid nor
\* forbidden.
LastUpdateTransient ==
    Updating /\ retry.last \in {"NotFound", "ServerTimeout", "Conflict"}

\* C21 as stated: an invalid or forbidden error is returned at once, the first
\* successful update ends the call with no error, and every other error is
\* retried, so that a call whose context is not cancelled never returns after
\* such an error.
C21_EveryOtherUpdateErrorIsRetried ==
    /\ (Updating /\ Returned /\ retry.last \in {"Invalid", "Forbidden"})
          => retry.err = retry.last
    /\ (Updating /\ Returned /\ retry.last = NoErr) => retry.err = NoErr
    /\ ~(Returned /\ LastUpdateTransient /\ ~ctxDone)

\* C21, amended: an invalid or forbidden error is returned at once with no
\* further status update, the first successful update ends the call with no
\* error and no update follows it, and every other error is followed by
\* another update as long as the backoff has steps left and the context is
\* not done; after the last step the call returns the timeout error and after
\* a cancellation the context's error, with no further update in either case.
C21_UpdateRetriesWhileStepsRemain ==
    /\ [](Updating /\ retry.last \in {"Invalid", "Forbidden", NoErr} =>
            /\ Returned
            /\ retry.err = retry.last)
    /\ [](Returned /\ LastUpdateTransient =>
            \/ retry.attempts = retry.limit /\ retry.err = ErrWaitTimeout
            \/ ctxDone /\ retry.err = ErrCanceled)
    /\ [][Updating /\ Returned => retry'.attempts = retry.attempts]_vars
    /\ \A k \in 1..(StandardBackoffSteps - 1) :
          (LastUpdateTransient /\ retry.attempts = k)
              ~> (retry.attempts = k + 1 \/ ctxDone)

\* The fifth status update in a row failed with a conflict and the call
\* returned the timeout error.
C21_Witness ==
    /\ Updating
    /\ Returned
    /\ retry.attempts = StandardBackoffSteps
    /\ retry.last = "Conflict"
    /\ retry.err = ErrWaitTimeout
    /\ ~ctxDone

\* C25: every wrapper returns, after at most as many attempts as its backoff
\* has steps (5 for the standard and the reconcile backoff, 6 for the
\* Prometheus backoff); it returns no error only if its last attempt
\* succeeded, so a call whose attempts all failed returns an error.
C25_WrappersTerminateWithinSteps ==
    /\ [](retry.attempts <= retry.limit)
    /\ [](retry.limit =
            IF retry.op = "ValidatePrometheus" THEN 6 ELSE 5)
    /\ [](Returned /\ retry.err = NoErr =>
            retry.attempts >= 1 /\ retry.last = NoErr)
    /\ [][Returned => retry' = retry]_vars
    /\ <>Returned

\* The validation of the Prometheus API failed six times and returned the
\* timeout error; the context was not cancelled.
C25_Witness ==
    /\ Returned
    /\ retry.op = "ValidatePrometheus"
    /\ retry.attempts = PrometheusBackoffSteps
    /\ retry.last # NoErr
    /\ retry.err = ErrWaitTimeout
    /\ ~ctxDone

(***************************************************************************)
(* Actuator (internal/actuator).  A Deployment is read through             *)
(* GetDeploymentWithBackoff, which ends with the Deployment or with an     *)
(* error; the metrics emitter records each call of EmitReplicaMetrics and  *)
(* may fail it.                                                            *)
(***************************************************************************)
\* getCurrentDeploymentReplicas, after GetDeploymentWithBackoff returned
\* getErr and, without error, the Deployment deploy.  Spec.Replicas is a
\* pointer: nil, or the value v.
getCurrentDeploymentReplicas(getErr, deploy) ==
    IF getErr # NoErr
    THEN [replicas |-> 0, err |-> "failed to get Deployment: " \o getErr]
    ELSE IF deploy.Status.Replicas >= 0
    THEN [replicas |-> deploy.Status.Replicas, err |-> NoErr]
    ELSE IF ~deploy.Spec.Replicas.nil
    THEN [replicas |-> deploy.Spec.Replicas.v, err |-> NoErr]
    ELSE [replicas |-> 1, err |-> NoErr]

\* A fallback that takes the last current allocation with the variant id.
RECURSIVE CurrentAllocReplicasLast(_, _)
CurrentAllocReplicasLast(currentAllocs, variantID) ==
    IF Len(currentAllocs) = 0 THEN 0
    ELSE LET n == Len(currentAllocs)
         IN  IF currentAllocs[n].VariantID = variantID
             THEN currentAllocs[n].NumReplicas
             ELSE CurrentAllocReplicasLast(SubSeq(currentAllocs, 1, n - 1), variantID)

\* The fallback of EmitMetrics: the replicas of the first current allocation
\* with the variant id, 0 if there is none.
RECURSIVE CurrentAllocReplicas(_, _)
CurrentAllocReplicas(currentAllocs, variantID) ==
    IF Len(currentAllocs) = 0 THEN 0
    ELSE IF Head(currentAllocs).VariantID = variantID
    THEN Head(currentAllocs).NumReplicas
    ELSE CurrentAllocReplicas(Tail(currentAllocs), variantID)

\* The call of EmitReplicaMetrics for one desired allocation.
ReplicaMetricsCall(va, desiredAlloc, get, emitErr) ==
    LET current == getCurrentDeploymentReplicas(get.err, get.deploy)
    IN  [currentReplicas |-> IF current.err # NoErr
                             THEN CurrentAllocReplicas(va.Status.CurrentAllocs,
                                                       desiredAlloc.VariantID)
                             ELSE current.replicas,
         desiredReplicas |-> desiredAlloc.NumReplicas,
         accelerator |-> desiredAlloc.Accelerator,
         variantID |-> desiredAlloc.VariantID,
         err |-> emitErr]

\* An EmitMetrics that gives up, with the error, when an emission fails.
RECURSIVE EmitMetricsStop(_, _, _, _)
EmitMetricsStop(va, gets, emitErrs, i) ==
    IF i > Len(va.Status.DesiredOptimizedAllocs) THEN [err |-> NoErr, calls |-> <<>>]
    ELSE LET desiredAlloc == va.Status.DesiredOptimizedAllocs[i]
             rest == EmitMetricsStop(va, gets, emitErrs, i + 1)
         IN  IF desiredAlloc.NumReplicas < 0 THEN rest
             ELSE IF emitErrs[i] # NoErr
             THEN [err |-> emitErrs[i],
                   calls |-> <<ReplicaMetricsCall(va, desiredAlloc, gets[i], emitErrs[i])>>]
             ELSE [err |-> rest.err,
                   calls |-> <<ReplicaMetricsCall(va, desiredAlloc, gets[i], emitErrs[i])>>
                                \o rest.calls]

\* EmitMetrics from the i-th desired allocation on: the error it returns and
\* the calls of EmitReplicaMetrics it makes, where gets[i] is what the read of
\* the Deployment gives for the i-th allocation and emitErrs[i] the error of
\* its emission.
RECURSIVE EmitMetrics(_, _, _, _)
EmitMetrics(va, gets, emitErrs, i) ==
    IF i > Len(va.Status.DesiredOptimizedAllocs) THEN [err |-> NoErr, calls |-> <<>>]
    ELSE LET desiredAlloc == va.Status.DesiredOptimizedAllocs[i]
             rest == EmitMetrics(va, gets, emitErrs, i + 1)
         IN  IF desiredAlloc.NumReplicas < 0 THEN rest
             ELSE [err |-> NoErr,
                   calls |-> <<ReplicaMetricsCall(va, desiredAlloc, gets[i], emitErrs[i])>>
                                \o rest.calls]

\* The sequences of up to n elements of S.
RECURSIVE SeqsUpTo(_, _)
SeqsUpTo(S, n) ==
    IF n = 0 THEN {<<>>}
    ELSE SeqsUpTo(S, n - 1) \cup {Append(q, x) : q \in SeqsUpTo(S, n - 1), x \in S}

\* The live Deployments: one whose status has not been reported yet
\* (generation not observed, replica count at its zero value) with an unset or
\* a set spec replica count, and ones whose status reports 0 or 3 replicas.
Deployments ==
    {[Spec |-> [Replicas |-> sr],
      Status |-> [ObservedGeneration |-> st[1], Replicas |-> st[2]]] :
        sr \in {[nil |-> TRUE, v |-> 0], [nil |-> FALSE, v |-> 2]},
        st \in {<<0, 0>>, <<1, 0>>, <<1, 3>>}}

\* What a read of the Deployment gives: the Deployment, or one of the errors
\* GetDeploymentWithBackoff ends with.
DeploymentReads ==
    {[err |-> NoErr, deploy |-> d] : d \in Deployments}
        \cup {[err |-> e, deploy |-> CHOOSE d \in Deployments : TRUE] :
                e \in {"NotFound", ErrWaitTimeout, ErrCanceled}}

\* A variant with up to MaxAllocs current and desired allocations; two of the
\* current allocations have the same variant id, and the desired replica counts
\* are negative, zero and positive.
ActuatedVariants ==
    {[Name |-> "a", Namespace |-> "ns1",
      Status |-> [CurrentAllocs |-> cur, DesiredOptimizedAllocs |-> des]] :
        cur \in SeqsUpTo({[VariantID |-> a[1], NumReplicas |-> a[2]] :
                            a \in {<<"m-A100-1", 1>>, <<"m-A100-1", 4>>, <<"m-L40-1", 1>>}},
                         MaxAllocs),
        des \in SeqsUpTo({[VariantID |-> a[1], Accelerator |-> a[2], NumReplicas |-> a[3]] :
                            a \in {<<"m-A100-1", "A100", -1>>, <<"m-A100-1", "A100", 0>>,
                                   <<"m-L40-1", "L40", 2>>}},
                         MaxAllocs)}

InitActuator ==
    /\ CycleIdle /\ CollectIdle /\ CacheIdle /\ LockIdle /\ RetryIdle
    /\ arg \in {[fn |-> "getCurrentDeploymentReplicas", get |-> g] : g \in DeploymentReads}
           \cup {[fn |-> "EmitMetrics", va |-> va] : va \in ActuatedVariants}
    /\ ret = NotCalled

DoGetCurrentDeploymentReplicas ==
    /\ arg.fn = "getCurrentDeploymentReplicas"
    /\ ~ret.called
    /\ ret' = [called |-> TRUE,
               result |-> getCurrentDeploymentReplicas(arg.get.err, arg.get.deploy)]
    /\ UNCHANGED <<arg, cycleVars, collectVars, cacheVars, lockVars, retryVars>>

\* EmitMetrics; the reads of the Deployment are limited to an error and two
\* Deployments per allocation.
DoEmitMetrics ==
    /\ arg.fn = "EmitMetrics"
    /\ ~ret.called
    /\ LET n == Len(arg.va.Status.DesiredOptimizedAllocs)
       IN  \E gets \in [1..n -> {g \in DeploymentReads :
                                   \/ g.err = "NotFound"
                                   \/ /\ g.err = NoErr
                                      /\ ~g.deploy.Spec.Replicas.nil
                                      /\ g.deploy.Status.ObservedGeneration = 1}],
              emitErrs \in [1..n -> {NoErr, "emit failed"}] :
              ret' = [called |-> TRUE, gets |-> gets, emitErrs |-> emitErrs,
                      result |-> EmitMetrics(arg.va, gets, emitErrs, 1)]
    /\ UNCHANGED <<arg, cycleVars, collectVars, cacheVars, lockVars, retryVars>>

NextActuator ==
    \/ DoGetCurrentDeploymentReplicas
    \/ DoEmitMetrics

SpecActuator == InitActuator /\ [][NextActuator]_vars

EmitCalled == arg.fn = "EmitMetrics" /\ ret.called

NonNegative(alloc) == alloc.NumReplicas >= 0

\* C22: EmitMetrics returns nil whatever happens, and a Deployment that cannot
\* be read or an emission that fails does not keep it from going on: the
\* emitter is called once for each desired allocation with a non-negative
\* replica count, in their order.
C22_EmitMetricsNeverFails ==
    EmitCalled =>
        LET wanted == SelectSeq(arg.va.Status.DesiredOptimizedAllocs, NonNegative)
        IN  /\ ret.result.err = NoErr
            /\ Len(ret.result.calls) = Len(wanted)
            /\ \A j \in 1..Len(wanted) :
                  /\ ret.result.calls[j].variantID = wanted[j].VariantID
                  /\ ret.result.calls[j].desiredReplicas = wanted[j].NumReplicas

\* The read of the Deployment and the emission failed for the first of two
\* allocations, and the second one was emitted all the same.
C22_Witness ==
    /\ EmitCalled
    /\ Len(arg.va.Status.DesiredOptimizedAllocs) = 2
    /\ ret.gets[1].err # NoErr
    /\ ret.emitErrs[1] # NoErr
    /\ Len(ret.result.calls) = 2
    /\ ret.result.calls[2].err = NoErr

\* The call of the emitter that belongs to the i-th desired allocation.
CallOf(i) ==
    ret.result.calls[Cardinality({k \in 1..i :
        arg.va.Status.DesiredOptimizedAllocs[k].NumReplicas >= 0})]

\* C23: nothing is emitted without desired allocations or for a negative
\* replica count; every other desired allocation is emitted with its replica
\* count and accelerator, and with the current replicas of the live Deployment
\* or, when that cannot be read, of the first current allocation with the same
\* variant id, 0 if there is none.
C23_EmitsExactlyNonNegativeAllocations ==
    EmitCalled =>
        LET des == arg.va.Status.DesiredOptimizedAllocs
            cur == arg.va.Status.CurrentAllocs
        IN  /\ Len(ret.result.calls) =
                  Cardinality({i \in 1..Len(des) : des[i].NumReplicas >= 0})
            /\ \A i \in 1..Len(des) :
                  des[i].NumReplicas >= 0 =>
                      LET same == {k \in 1..Len(cur) : cur[k].VariantID = des[i].VariantID}
                      IN  /\ CallOf(i).desiredReplicas = des[i].NumReplicas
                          /\ CallOf(i).accelerator = des[i].Accelerator
                          /\ CallOf(i).variantID = des[i].VariantID
                          /\ CallOf(i).currentReplicas =
                                IF ret.gets[i].err = NoErr
                                THEN ret.gets[i].deploy.Status.Replicas
                                ELSE IF same = {} THEN 0
                                ELSE cur[CHOOSE k \in same : \A l \in same : k <= l].NumReplicas

\* A negative allocation was skipped and the next one was emitted with the
\* replicas of the first of two current allocations with its variant id, the
\* Deployment being unreadable.
C23_Witness ==
    /\ EmitCalled
    /\ Len(arg.va.Status.DesiredOptimizedAllocs) = 2
    /\ arg.va.Status.DesiredOptimizedAllocs[1].NumReplicas = -1
    /\ arg.va.Status.DesiredOptimizedAllocs[2].NumReplicas = 0
    /\ arg.va.Status.CurrentAllocs =
          <<[VariantID |-> "m-A100-1", NumReplicas |-> 4],
            [VariantID |-> "m-A100-1", NumReplicas |-> 1]>>
    /\ ret.gets[2].err = "NotFound"
    /\ Len(ret.result.calls) = 1
    /\ ret.result.calls[1].currentReplicas = 4

\* C24: getCurrentDeploymentReplicas returns the status replica count when
\* the Deployment's status has been reported, the spec replica count when it
\* has not, 1 when that is unset too, and an error when the Deployment cannot
\* be read.
C24_FallsBackToSpecReplicas ==
    (arg.fn = "getCurrentDeploymentReplicas" /\ ret.called) =>
        IF arg.get.err # NoErr
        THEN ret.result.err # NoErr
        ELSE /\ ret.result.err = NoErr
             /\ ret.result.replicas =
                   IF arg.get.deploy.Status.ObservedGeneration > 0
                   THEN arg.get.deploy.Status.Replicas
                   ELSE IF ~arg.get.deploy.Spec.Replicas.nil
                   THEN arg.get.deploy.Spec.Replicas.v
                   ELSE 1

\* What the code does: the status replica count of every Deployment it can
\* read, reported or not.
C24_ReturnsStatusReplicas ==
    (arg.fn = "getCurrentDeploymentReplicas" /\ ret.called /\ arg.get.err = NoErr) =>
        /\ ret.result.err = NoErr
        /\ ret.result.replicas = arg.get.deploy.Status.Replicas

\* C26: whenever the arrival-rate or the output-token query does not yield a
\* vector, because it failed or because it returned a result of another type
\* without error, the collection returns an error; the empty Allocation never
\* comes without one.
C26_EmptyAllocationOnlyWithError ==
    collected.called =>
        /\ (~IsVector(promAPI.arrival) \/ ~IsVector(promAPI.tokens))
              => collected.err # NoErr
        /\ (collected.alloc = ZeroAllocation) => collected.err # NoErr

\* The part of C26 about failed queries: a failed arrival-rate query, or a
\* failed output-token query after an arrival-rate vector, is returned as an
\* error.
C26_FailedQueryIsReturned ==
    collected.called =>
        /\ Failed(promAPI.arrival) => collected.err # NoErr
        /\ (IsVector(promAPI.arrival) /\ Failed(promAPI.tokens)) => collected.err # NoErr

\* The variants of the list that are present in the solution.
VariantsInSolution == {j \in VariantIndices : InSolution(vaList[j])}

\* C27: the map a successful Optimize returns has one entry for each variant
\* of the list that is present in the solution; variants with different
\* (name, namespace) identities do not share an entry.
C27_OneEntryPerVariant ==
    (Solved /\ opt.result.err = NoErr) =>
        /\ Cardinality(DOMAIN opt.result.map) = Cardinality(VariantsInSolution)
        /\ \A j, k \in VariantsInSolution :
              (j # k /\ vaList[j].Name = vaList[k].Name) =>
                  vaList[j].Namespace = vaList[k].Namespace

\* C28: every OptimizedAlloc of the map a successful Optimize returns carries
\* the identifier of its variant: its VariantID is not empty and equals the
\* Spec.VariantID of the variant it was made for.
C28_OptimizedAllocCarriesVariantID ==
    (Solved /\ opt.result.err = NoErr) =>
        \A j \in VariantsInSolution :
            /\ vaList[j].Name \in DOMAIN opt.result.map
            /\ opt.result.map[vaList[j].Name].VariantID # ""
            /\ opt.result.map[vaList[j].Name].VariantID = vaList[j].Spec.VariantID

(***************************************************************************)
(* FindModelSLO called on its own.                                         *)
(***************************************************************************)
\* The documents a service class key may hold: a malformed one, or a
\* well-formed class of that key listing some of the models, each with the
\* SLO of the class.
ServiceClassDocs(k) ==
    {[ok |-> FALSE, sc |-> [Name |-> "", Priority |-> 0, Data |-> <<>>]]}
    \cup {[ok |-> TRUE,
           sc |-> [Name |-> k, Priority |-> IF k = "premium" THEN 1 ELSE 10,
                   Data |-> [i \in 1..Len(models) |->
                               [Model |-> models[i],
                                SLOTPOT |-> IF k = "premium" THEN 100 ELSE 200,
                                SLOTTFT |-> IF k = "premium" THEN 100 ELSE 200]]]] :
          models \in {<<>>, <<"m">>, <<"n">>, <<"m", "n">>}}

InitSLO ==
    /\ CycleIdle /\ CollectIdle /\ CacheIdle /\ LockIdle /\ RetryIdle
    /\ \E K \in SUBSET ServiceClassKeys :
       \E cm \in [K -> UNION {ServiceClassDocs(k) : k \in K}] :
       \E targetModel \in ModelIDs :
          /\ \A k \in K : cm[k] \in ServiceClassDocs(k)
          /\ arg = [fn |-> "FindModelSLO", cmData |-> cm, targetModel |-> targetModel]
    /\ ret = NotCalled

\* FindModelSLO(cmData, targetModel): the range loop visits the keys in an
\* order the runtime chooses anew at every call.
DoFindModelSLO ==
    /\ arg.fn = "FindModelSLO"
    /\ ret.called => ret.n < MaxOps
    /\ \E order \in Orders(DOMAIN arg.cmData) :
          ret' = [called |-> TRUE, n |-> IF ret.called THEN ret.n + 1 ELSE 1,
                  order |-> order,
                  value |-> FindModelSLO(arg.cmData, arg.targetModel, order)]
    /\ UNCHANGED <<arg, cycleVars, collectVars, cacheVars, lockVars, retryVars>>

NextSLO == DoFindModelSLO

SpecSLO == InitSLO /\ [][NextSLO]_vars

\* The service classes of the map whose document parses and lists the model.
ClassesListing(cmData, targetModel) ==
    {k \in DOMAIN cmData :
        /\ cmData[k].ok
        /\ \E i \in 1..Len(cmData[k].sc.Data) : cmData[k].sc.Data[i].Model = targetModel}

\* C29: the outcome of FindModelSLO is a function of the map and the model:
\* every order of visiting the keys gives the outcome the call returned, and
\* the not-found error is returned exactly when no service class lists the
\* model (a map with a document that does not parse may answer with the parse
\* error instead).
C29_FindModelSLODeterministic ==
    ret.called =>
        /\ \A order \in Orders(DOMAIN arg.cmData) :
              FindModelSLO(arg.cmData, arg.targetModel, order) = ret.value
        /\ (ret.value.err = "model not found in any service class")
              => (ClassesListing(arg.cmData, arg.targetModel) = {})
        /\ (/\ ClassesListing(arg.cmData, arg.targetModel) = {}
            /\ \A k \in DOMAIN arg.cmData : arg.cmData[k].ok)
              => (ret.value.err = "model not found in any service class")

\* The part of C29 that holds: when every document parses and at most one
\* class lists the model, the outcome does not depend on the order.
C29_DeterministicForOneListing ==
    (/\ ret.called
     /\ \A k \in DOMAIN arg.cmData : arg.cmData[k].ok
     /\ Cardinality(ClassesListing(arg.cmData, arg.targetModel)) <= 1) =>
        /\ \A order \in Orders(DOMAIN arg.cmData) :
              FindModelSLO(arg.cmData, arg.targetModel, order) = ret.value
        /\ (ret.value.err = "model not found in any service class")
              <=> (ClassesListing(arg.cmData, arg.targetModel) = {})

\* C30: whenever adding a variant's performance profile succeeds, the alpha,
\* beta, gamma and delta stored in the system data are finite numbers.
C30_StoredCoefficientsFinite ==
    (ProfileStepDone /\ Len(sd.PerfData) > 0) =>
        \A i \in 1..Len(sd.PerfData) :
            /\ sd.PerfData[i].Alpha.k = "num"
            /\ sd.PerfData[i].Beta.k = "num"
            /\ sd.PerfData[i].Gamma.k = "num"
            /\ sd.PerfData[i].Delta.k = "num"

====
